---- MODULE Spec2Model ----
(***************************************************************************)
(* Model of the agent call loop of AgentsOfDiscovery                       *)
(* (src/ai_agent/agents/agent.py): budgeted turn creation, tool dispatch   *)
(* by name, the prepared-message buffer and the reporter sink.             *)
(*                                                                         *)
(* Every piece of per-agent state is a function over Agents, so that one   *)
(* call frame per agent exists (the program is single threaded and no      *)
(* agent calls itself recursively).                                        *)
(***************************************************************************)
EXTENDS Integers, Sequences, FiniteSets, TLC

(* ------------------------------------------------------------------ *)
(* Bounds of the model                                                 *)
(* ------------------------------------------------------------------ *)
\* largest max_calls an agent is constructed with
MaxBudget == 1
\* largest number of output items of one completion-service response
MaxItems == 2
\* the completion service answers this many requests, then hangs
MaxTurns == 2
\* how often the owner of an agent resets it
MaxResets == 1
\* most messages staged in a buffer before it is drained (SpecBuf)
MaxStaged == 3
\* SpecDeleg: the completion service answers this many requests, then hangs
MaxDelegTurns == 4
\* SpecDeleg: largest number of output items of one response
MaxDelegItems == 1
\* SpecDeleg: max_calls of the researcher, of every coder and every reviewer
MaxDelegBudget == 2
\* SpecDeleg: coder instances that can be constructed
MaxCoders == 2
\* SpecTasks: most tasks added to the task manager
MaxTasks == 2
\* SpecTasks: most comments recorded over all tasks
MaxComments == 2
\* budget of the researcher the driver builds
MaxMainBudget == 1
\* output items of one turn of that researcher
MaxMainItems == 1
\* parameters of one tool schema
MaxParams == 2

(* ------------------------------------------------------------------ *)
(* Values                                                              *)
(* ------------------------------------------------------------------ *)
Agents == {"agent"}

NoId == 0
NoCallId == <<0, 0>>

\* response = None in Agent.call
NoResponse ==
    [id |-> NoId, output |-> <<>>, input |-> <<>>, previous_response_id |-> NoId]

\* the agents of a delegation: the researcher that owns the handoff tool,
\* and the i-th coder the tool constructs with the reviewer paired to it
Researcher == "researcher"
\* every key handed the one Coder instance
CoderName_same(i) == "coder1"

CoderName(i) == "coder" \o ToString(i)
ReviewerName(i) == "reviewer" \o ToString(i)
CoderAgents == {CoderName(i) : i \in 1..MaxCoders}
ReviewerAgents == {ReviewerName(i) : i \in 1..MaxCoders}
DelegAgents == {Researcher} \cup CoderAgents \cup ReviewerAgents

\* the prepared-message buffer instances: the one the driver's agent is
\* constructed with, and the one default argument of Agent.__init__, which
\* Python evaluates once, when the function is defined
BufferIds == {"buff", "default"}

\* the researcher as main() builds it (`physicist`), with the tools of its
\* own that delegate to no other agent
Physicist == "physicist"

\* the buffer instance an agent drains: Coder.__init__ and
\* CodeReviewer.__init__ pass none, so every coder and reviewer holds the
\* default instance
BufferOf(a) ==
    IF a \in CoderAgents \cup ReviewerAgents THEN "default" ELSE "buff"

\* `coder: Coder = None` of handoff_to_coder
NoCoder == ""

\* Coder.reviewer
ReviewerOf(c) == ReviewerName(CHOOSE i \in 1..MaxCoders : CoderName(i) = c)

\* the tools registered on an agent, in registration order; handler names
\* the function the Tool wraps.  The third tool of the plain agent repeats
\* the first name.  Of the researcher's tools only the handoff is kept.
ToolsOf(a) ==
    IF a = Researcher
    THEN << [name |-> "handoff_to_coder", handler |-> "handoff_to_coder"] >>
    ELSE IF a = Physicist
    THEN << [name |-> "end_project", handler |-> "end_project"],
            [name |-> "view_images", handler |-> "view_images"],
            [name |-> "view_text_files", handler |-> "view_text_files"] >>
    ELSE IF a \in CoderAgents
    THEN << [name |-> "write_python", handler |-> "write_python"] >>
    ELSE IF a \in ReviewerAgents
    THEN << [name |-> "write_code_review", handler |-> "write_code_review"] >>
    ELSE << [name |-> "view_images", handler |-> "view_images"],
            [name |-> "execute_python", handler |-> "execute_python"],
            [name |-> "view_images", handler |-> "view_text_files"] >>

ToolNames ==
    {"view_images", "execute_python", "handoff_to_coder", "write_python",
     "write_code_review", "end_project", "view_text_files"}

\* names the completion service may request; "finish" is registered nowhere
RequestNames == {"view_images", "finish"}

\* output items of a response, before the service numbers the call ids
Items ==
    {[type |-> "message", name |-> "", text |-> "pong", args |-> <<>>]}
    \cup {[type |-> "function_call", name |-> n, text |-> "", args |-> <<>>] :
              n \in RequestNames}

SeqsUpTo(S, n) == UNION {[1..k -> S] : k \in 0..n}

Outputs == SeqsUpTo(Items, MaxItems)

UserMsg(c) == [type |-> "user", call_id |-> NoCallId, content |-> c]

\* message lists a caller passes to call()
CallArgs == {<<>>, <<UserMsg("ping")>>}

FunctionCallOutput(cid, res) ==
    [type |-> "function_call_output", call_id |-> cid, content |-> res]

\* the message a viewing tool stages for the call cid
StagedMsg(handler, cid) == [type |-> "user", call_id |-> cid, content |-> handler]

VARIABLES
    max_calls,          \* Agent._max_calls
    call_count,         \* Agent._call_count
    stop,               \* Agent.stop
    response_ids,       \* Agent.response_ids
    buffers,            \* content of each preparedMsgBuff
    pc,                 \* position of the agent's call() frame
    messages,           \* local `messages` of call()
    last_response_id,   \* parameter last_response_id of call()
    response,           \* local `response` of call()
    tool_idx,           \* position of the for loop of execute_tool_calls
    tool_messages,      \* local `tool_messages` of execute_tool_calls
    result,             \* what the last call() returned or raised
    called,             \* the agent as call() found it on entry
    next_id,            \* completion service: id of the next response
    reporter,           \* MDReporter: metrics and the last messages logged
    left_over,          \* turns whose tool messages call() logged on exit, unsent
    turns,              \* ids of all the turns an agent created in its lifetime
    coders,             \* HandoffToCoder.coders: the registry, in creation order
    coder,              \* local `coder` of handoff_to_coder while it runs
    keys_used,          \* the coder_id of every handoff dispatched so far
    pass_,              \* CodeReviewer.pass_
    feedback,           \* CodeReviewer.feedback
    task,               \* CodeReviewer.task
    recorded,           \* a verdict was recorded since the reviewer's reset()
    stop_tool,          \* EndProject.stop of the driver's stop_tool
    tool_schema,        \* the parameters given to build_function_schema, and
                        \* the schema it returned
    tasks,              \* TaskManager.tasks
    active_task,        \* TaskManager.active_task
    tm_result           \* what the last TaskManager operation returned

vars == << max_calls, call_count, stop, response_ids, buffers, pc, messages,
           last_response_id, response, tool_idx, tool_messages, result,
           called, next_id,  reporter, left_over, turns, coders, coder,
           keys_used, pass_, feedback, task, recorded, stop_tool, tool_schema,
           tasks, active_task, tm_result >>

\* the registry of the handoff tool, the fields a CodeReviewer adds and the
\* flag of the end_project tool
delegVars == << coders, coder, keys_used, pass_, feedback, task, recorded,
               stop_tool, tool_schema >>

\* the task manager
taskVars == << tasks, active_task, tm_result >>

(* ------------------------------------------------------------------ *)
(* Reporter (src/ai_agent/utility/md_reporter.py)                      *)
(* ------------------------------------------------------------------ *)
\* The reporter is a write-only sink: of its files the model keeps the
\* counters written with mode "add", the number of responses logged and the
\* batch of messages report_messages wrote last.
ReporterInit ==
    [ num_calls |-> 0, tool_calls |-> 0, max_calls_reached |-> 0,
      num_resets |-> 0, tool_calls_by |-> [n \in ToolNames |-> 0],
      responses |-> 0, last_messages |-> <<>>,
      different_coders |-> 0, lint_errors |-> 0,
      passed_reviews |-> 0, failed_reviews |-> 0 ]

\* report_metrics(metric, 1, mode="add") on one of the scalar metrics
AddNumCalls(rep) == [rep EXCEPT !.num_calls = @ + 1]
AddToolCalls(rep) == [rep EXCEPT !.tool_calls = @ + 1]
AddMaxCallsReached(rep) == [rep EXCEPT !.max_calls_reached = @ + 1]
AddNumResets(rep) == [rep EXCEPT !.num_resets = @ + 1]
\* a metric that counts the invocation for every tool
AddToolCallsBy_every(rep, name) ==
    [rep EXCEPT !.tool_calls_by = [n \in DOMAIN @ |-> @[n] + 1]]

AddToolCallsBy(rep, name) == [rep EXCEPT !.tool_calls_by[name] = @ + 1]
AddDifferentCoders(rep) == [rep EXCEPT !.different_coders = @ + 1]
AddLintErrors(rep) == [rep EXCEPT !.lint_errors = @ + 1]
AddPassedReviews(rep) == [rep EXCEPT !.passed_reviews = @ + 1]
AddFailedReviews(rep) == [rep EXCEPT !.failed_reviews = @ + 1]

\* report_messages that writes nothing
ReportMessages_silent(rep, msgs) == rep

\* report_messages(messages, name): the batch written last
ReportMessages(rep, msgs) == [rep EXCEPT !.last_messages = msgs]

\* report_assistant_response(response, name)
ReportAssistantResponse(rep) == [rep EXCEPT !.responses = @ + 1]

(* ------------------------------------------------------------------ *)
(* Tool schemas (src/ai_agent/tools/tool.py)                           *)
(* ------------------------------------------------------------------ *)
\* a JSON value that is a string, and one that is a list of strings
Str(s) == << "str", s >>
List(l) == << "list" >> \o l

\* `enum: list[str] = None`
NoEnum == <<>>

\* the arguments build_parameter_schema is called with
ParamSpecs ==
    [ name : {"x", "y"}, type_ : {"string"}, array : BOOLEAN,
      required : BOOLEAN, enum : {NoEnum, << "a" >>} ]

\* Tool.build_parameter_schema: the dictionary with the one key `name`
build_parameter_schema(name, description, type_, array, required, enum) ==
    LET t1 == IF array THEN "array" ELSE type_
        t2 == IF ~required THEN List(<< t1, "null" >>) ELSE Str(t1)
        base == [type |-> t2, description |-> description]
        with_enum == IF enum # NoEnum THEN [enum |-> enum] @@ base ELSE base
        with_items == IF array THEN [items |-> [type |-> type_]] @@ with_enum
                      ELSE with_enum
    IN name :> with_items

\* the single-parameter schema of each of the specs
Built(specs) ==
    [i \in 1..Len(specs) |->
        build_parameter_schema(specs[i].name, "d", specs[i].type_,
                               specs[i].array, specs[i].required,
                               specs[i].enum)]

\* `list(p.keys())[0]` of a dictionary with one key
FirstKey(p) == CHOOSE k \in DOMAIN p : TRUE

\* `for p in parameters: parameter_dict.update(p)`
RECURSIVE UpdateAll(_, _)
UpdateAll(parameter_dict, parameters) ==
    IF parameters = <<>> THEN parameter_dict
    ELSE UpdateAll(Head(parameters) @@ parameter_dict, Tail(parameters))

\* a schema that requires only the parameters that may not be null
build_function_schema_required_only(name, description, parameters) ==
    LET NotNull(p) == p[FirstKey(p)].type[1] = "str"
        required == SelectSeq(parameters, NotNull)
    IN [ type |-> "function", name |-> name, description |-> description,
         parameters |->
            [ type |-> "object",
              properties |-> UpdateAll(<<>>, parameters),
              required |-> [i \in 1..Len(required) |-> FirstKey(required[i])],
              additionalProperties |-> FALSE ],
         strict |-> TRUE ]

\* Tool.build_function_schema
build_function_schema(name, description, parameters) ==
    [ type |-> "function", name |-> name, description |-> description,
      parameters |->
         [ type |-> "object",
           properties |-> UpdateAll(<<>>, parameters),
           required |-> [i \in 1..Len(parameters) |-> FirstKey(parameters[i])],
           additionalProperties |-> FALSE ],
      strict |-> TRUE ]

\* no schema built yet
NoSchema == [specs |-> <<>>, parameters |-> <<>>, built |-> FALSE]

(* ------------------------------------------------------------------ *)
(* Prepared message buffer (utility/prepared_msg_buff.py)              *)
(* ------------------------------------------------------------------ *)
add_msg(buf, m) == Append(buf, m)
get_msg(buf) == buf
clear_msg(buf) == <<>>

(* ------------------------------------------------------------------ *)
(* Agent                                                               *)
(* ------------------------------------------------------------------ *)
\* iterate without the budget check
iterate_never_stops(cnt, maxc, stp, rep) ==
    [count |-> cnt + 1, stop |-> stp, reporter |-> rep]

\* iterate with the budget check after the increment
iterate_stops_on_landing(cnt, maxc, stp, rep) ==
    IF cnt + 1 >= maxc
    THEN [count |-> cnt + 1, stop |-> TRUE, reporter |-> AddMaxCallsReached(rep)]
    ELSE [count |-> cnt + 1, stop |-> stp, reporter |-> rep]

\* Agent.iterate: budget check, then the increment
iterate(cnt, maxc, stp, rep) ==
    IF cnt >= maxc
    THEN [count |-> cnt + 1, stop |-> TRUE, reporter |-> AddMaxCallsReached(rep)]
    ELSE [count |-> cnt + 1, stop |-> stp, reporter |-> rep]

\* a turn always linked to the end of the chain, whatever the caller passed
PreviousResponseId_ignores_given(lrid, ids) ==
    IF ids # <<>> THEN ids[Len(ids)] ELSE NoId

\* the previous_response_id _create_response sends (NoId: none is sent)
PreviousResponseId(lrid, ids) ==
    IF lrid = NoId
    THEN IF ids # <<>> THEN ids[Len(ids)] ELSE NoId
    ELSE lrid

\* the service numbers the function calls of a response
WithCallIds(id, out) ==
    [i \in 1..Len(out) |->
        [type |-> out[i].type, name |-> out[i].name, text |-> out[i].text,
         args |-> out[i].args,
         call_id |-> IF out[i].type = "function_call" THEN <<id, i>> ELSE NoCallId]]

\* client.responses.create: the turn the service answers a request with; it
\* keeps the input and the previous_response_id the turn continues
responses_create(id, out, input, prev) ==
    [ id |-> id, output |-> WithCallIds(id, out), input |-> input,
      previous_response_id |-> prev ]

\* response.output_text: the texts of the message items, joined
RECURSIVE output_text(_)
output_text(out) ==
    IF out = <<>> THEN <<>>
    ELSE (IF Head(out).type = "message" THEN <<Head(out).text>> ELSE <<>>)
         \o output_text(Tail(out))

\* call() without the check of the message list
IsEmptyCall_unchecked(msgs) == FALSE

\* `if messages == []: raise ValueError` of call()
IsEmptyCall(msgs) == msgs = <<>>

\* a while loop that runs until the agent is stopped
LoopCondition_ignores_empty(msgs, stp) == ~stp

\* the condition of the while loop of call()
LoopCondition(msgs, stp) == msgs # <<>> /\ ~stp

\* call() testing the text instead of the response: `if not response.output_text`
ReturnValue_tests_text(resp) ==
    IF output_text(resp.output) = <<>>
    THEN [kind |-> "returned", text |-> <<"No response">>]
    ELSE [kind |-> "returned", text |-> output_text(resp.output)]

\* the value call() returns after the loop
ReturnValue(resp) ==
    IF resp = NoResponse
    THEN [kind |-> "returned", text |-> <<"No response">>]
    ELSE [kind |-> "returned", text |-> output_text(resp.output)]

\* call_function without the break: the last tool named name wins
RECURSIVE FindTool_no_break(_, _, _)
FindTool_no_break(tools, name, i) ==
    IF i > Len(tools) THEN 0
    ELSE LET later == FindTool_no_break(tools, name, i + 1)
         IN IF later # 0 THEN later
            ELSE IF tools[i].name = name THEN i ELSE 0

\* the for loop of call_function: index of the first tool named name, 0 if none
RECURSIVE FindTool(_, _, _)
FindTool(tools, name, i) ==
    IF i > Len(tools) THEN 0
    ELSE IF tools[i].name = name THEN i
    ELSE FindTool(tools, name, i + 1)

\* what a handler stages in the buffer while it runs
HandlerStages(handler, cid) ==
    IF handler \in {"view_images", "view_text_files"}
    THEN <<StagedMsg(handler, cid)>>
    ELSE <<>>

\* Tool.run: the per-tool metric, then the handler.  The viewing and executing
\* tools take no arguments here: the result text names the handler that ran,
\* and what a handler stages is told apart by the call id.
ToolRun(tool, cid, rep, buf) ==
    [ result |-> tool.handler,
      reporter |-> AddToolCallsBy(rep, tool.name),
      buffer |-> buf \o HandlerStages(tool.handler, cid) ]

\* call_function counting only the calls it could resolve
call_function_counts_found(tools, name, cid, rep, buf) ==
    LET i == FindTool(tools, name, 1)
    IN IF i = 0
       THEN [result |-> "function not found", reporter |-> rep, buffer |-> buf]
       ELSE [ToolRun(tools[i], cid, rep, buf) EXCEPT !.reporter = AddToolCalls(@)]

\* Agent.call_function
call_function(tools, name, cid, rep, buf) ==
    LET i == FindTool(tools, name, 1)
        ran == IF i = 0
               THEN [result |-> "function not found", reporter |-> rep, buffer |-> buf]
               ELSE ToolRun(tools[i], cid, rep, buf)
    IN [ran EXCEPT !.reporter = AddToolCalls(@)]

\* the for loop inserting each message in front of the ones before it
RECURSIVE AppendAll_reversed(_, _)
AppendAll_reversed(msgs, pending) ==
    IF pending = <<>> THEN msgs
    ELSE AppendAll_reversed(msgs, Tail(pending)) \o <<Head(pending)>>

\* `for pm in buffer.get_msg(): tool_messages.append(pm)`
RECURSIVE AppendAll(_, _)
AppendAll(msgs, pending) ==
    IF pending = <<>> THEN msgs
    ELSE AppendAll(Append(msgs, Head(pending)), Tail(pending))

\* the drain without clear_msg()
Drain_keeps_buffer(msgs, buf) ==
    [messages |-> AppendAll(msgs, get_msg(buf)), buffer |-> buf]

\* the drain at the end of one tool call: append everything, then clear
Drain(msgs, buf) ==
    [messages |-> AppendAll(msgs, get_msg(buf)), buffer |-> clear_msg(buf)]

Snapshot(a, msgs) ==
    [ made |-> TRUE, args |-> msgs, call_count |-> call_count[a],
      stop |-> stop[a], response_ids |-> response_ids[a] ]

NeverCalled ==
    [ made |-> FALSE, args |-> <<>>, call_count |-> 0, stop |-> FALSE,
      response_ids |-> <<>> ]

\* HandoffToCoder.__init__ and the fields CodeReviewer.__init__ sets
InitDelegation(S) ==
    /\ coders = <<>>
    /\ coder = NoCoder
    /\ keys_used = {}
    /\ pass_ = [a \in S |-> FALSE]
    /\ feedback = [a \in S |-> ""]
    /\ task = [a \in S |-> ""]
    /\ recorded = [a \in S |-> FALSE]
    /\ stop_tool = FALSE
    /\ tool_schema = NoSchema

\* the result of no task manager operation yet
NoResult == [op |-> "", id |-> 0, arg |-> "", text |-> "", shown |-> <<>>]

\* TaskManager.__init__
InitTasks ==
    /\ tasks = <<>>
    /\ active_task = -1
    /\ tm_result = NoResult

\* Agent.__init__ of the agents S, none of them inside call(); the
\* completion service and the reporter before their first use
InitAgents(S) ==
    /\ call_count = [a \in S |-> 0]
    /\ stop = [a \in S |-> FALSE]
    /\ response_ids = [a \in S |-> <<>>]
    /\ buffers = [b \in BufferIds |-> <<>>]
    /\ pc = [a \in S |-> "idle"]
    /\ messages = [a \in S |-> <<>>]
    /\ last_response_id = [a \in S |-> NoId]
    /\ response = [a \in S |-> NoResponse]
    /\ tool_idx = [a \in S |-> 1]
    /\ tool_messages = [a \in S |-> <<>>]
    /\ result = [a \in S |-> [kind |-> "none", text |-> <<>>]]
    /\ called = [a \in S |-> NeverCalled]
    /\ next_id = 1
    /\ reporter = ReporterInit
    /\ left_over = [a \in S |-> {}]
    /\ turns = [a \in S |-> {}]

Init ==
    /\ max_calls \in [Agents -> 0..MaxBudget]
    /\ InitAgents(Agents)
    /\ InitDelegation(Agents)
    /\ InitTasks

\* call(messages, last_response_id) up to the while loop
Call(a, msgs, lrid) ==
    /\ pc[a] = "idle"
    /\ called' = [called EXCEPT ![a] = Snapshot(a, msgs)]
    /\ IF IsEmptyCall(msgs)
       THEN /\ result' = [result EXCEPT ![a] = [kind |-> "ValueError", text |-> <<>>]]
            /\ UNCHANGED << pc, messages, last_response_id, response >>
       ELSE /\ pc' = [pc EXCEPT ![a] = "while"]
            /\ messages' = [messages EXCEPT ![a] = msgs]
            /\ last_response_id' = [last_response_id EXCEPT ![a] = lrid]
            /\ response' = [response EXCEPT ![a] = NoResponse]
            /\ result' = [result EXCEPT ![a] = [kind |-> "none", text |-> <<>>]]
    /\ UNCHANGED << max_calls, call_count, stop, response_ids, buffers, tool_idx,
                    tool_messages, next_id,  reporter, left_over, turns,
                    delegVars, taskVars >>

\* the loop condition holds: _create_response(messages, last_response_id)
CreateTurn(a, out) ==
    /\ pc[a] = "while"
    /\ LoopCondition(messages[a], stop[a])
    /\ IF stop[a]
       THEN /\ result' = [result EXCEPT ![a] =
                            [kind |-> "MaxCallsExceededError", text |-> <<>>]]
            /\ pc' = [pc EXCEPT ![a] = "idle"]
            /\ UNCHANGED << call_count, stop, response_ids, response, tool_idx,
                            tool_messages, next_id,  reporter, turns >>
       ELSE LET it == iterate(call_count[a], max_calls[a], stop[a], reporter)
                rep == ReportMessages(AddNumCalls(it.reporter), messages[a])
            IN /\ call_count' = [call_count EXCEPT ![a] = it.count]
               /\ stop' = [stop EXCEPT ![a] = it.stop]
               /\ response_ids' = [response_ids EXCEPT ![a] = Append(@, next_id)]
               /\ turns' = [turns EXCEPT ![a] = @ \cup {next_id}]
               /\ reporter' = ReportAssistantResponse(rep)
               /\ response' = [response EXCEPT ![a] =
                      responses_create(next_id, out, messages[a],
                          PreviousResponseId(last_response_id[a], response_ids[a]))]
               /\ next_id' = next_id + 1
               /\ tool_idx' = [tool_idx EXCEPT ![a] = 1]
               /\ tool_messages' = [tool_messages EXCEPT ![a] = <<>>]
               /\ pc' = [pc EXCEPT ![a] = "exec"]
               /\ UNCHANGED result
    /\ UNCHANGED << max_calls, buffers, messages, last_response_id, called,
                    left_over, delegVars, taskVars >>

\* a turn of the plain agent, while the completion service answers
CreateResponse(a, out) ==
    /\ next_id <= MaxTurns
    /\ CreateTurn(a, out)

\* one pass of the for loop of execute_tool_calls
ExecuteToolCall(a) ==
    /\ pc[a] = "exec"
    /\ tool_idx[a] <= Len(response[a].output)
    /\ LET item == response[a].output[tool_idx[a]]
           b == BufferOf(a)
       IN IF item.type # "function_call"
          THEN UNCHANGED << tool_messages, buffers, reporter >>
          ELSE LET ran == call_function(ToolsOf(a), item.name, item.call_id,
                                        reporter, buffers[b])
                   msgs == Append(tool_messages[a],
                                  FunctionCallOutput(item.call_id, ran.result))
                   dr == Drain(msgs, ran.buffer)
               IN /\ tool_messages' = [tool_messages EXCEPT ![a] = dr.messages]
                  /\ buffers' = [buffers EXCEPT ![b] = dr.buffer]
                  /\ reporter' = ran.reporter
    /\ tool_idx' = [tool_idx EXCEPT ![a] = @ + 1]
    /\ UNCHANGED << max_calls, call_count, stop, response_ids, pc, messages,
                    last_response_id, response, result, called, next_id,
                    left_over, turns, delegVars, taskVars >>

\* a for loop that a stopped agent leaves early
DispatchedAll_or_stopped(idx, out, stp) == idx > Len(out) \/ stp

\* `for tool_call in response.output` of execute_tool_calls is over: the
\* loop has passed every item; it does not look at the stop flag
DispatchedAll(idx, out, stp) == idx > Len(out)

\* execute_tool_calls returns: messages = self.execute_tool_calls(response).
\* The wall-clock metrics response_time and tool_call_time are left out.
ExecuteReturn(a) ==
    /\ pc[a] = "exec"
    /\ DispatchedAll(tool_idx[a], response[a].output, stop[a])
    /\ messages' = [messages EXCEPT ![a] = tool_messages[a]]
    /\ pc' = [pc EXCEPT ![a] = "while"]
    /\ UNCHANGED << max_calls, call_count, stop, response_ids, buffers,
                    last_response_id, response, tool_idx, tool_messages, result,
                    called, next_id,  reporter, left_over, turns, delegVars,
                    taskVars >>

\* the loop condition fails: log what is left, return
CallReturn(a) ==
    /\ pc[a] = "while"
    /\ ~LoopCondition(messages[a], stop[a])
    /\ IF stop[a] /\ messages[a] # <<>>
       THEN /\ reporter' = ReportMessages(reporter, messages[a])
            /\ left_over' = [left_over EXCEPT ![a] =
                                IF response[a] = NoResponse THEN @
                                ELSE @ \cup {response[a].id}]
       ELSE UNCHANGED << reporter, left_over >>
    /\ result' = [result EXCEPT ![a] = ReturnValue(response[a])]
    /\ pc' = [pc EXCEPT ![a] = "idle"]
    \* the frame of call() is gone
    /\ messages' = [messages EXCEPT ![a] = <<>>]
    /\ last_response_id' = [last_response_id EXCEPT ![a] = NoId]
    /\ response' = [response EXCEPT ![a] = NoResponse]
    /\ tool_idx' = [tool_idx EXCEPT ![a] = 1]
    /\ tool_messages' = [tool_messages EXCEPT ![a] = <<>>]
    /\ UNCHANGED << max_calls, call_count, stop, response_ids, buffers, called,
                    next_id, turns, delegVars, taskVars >>

\* the fields of an agent the resets work on
Fields(a) ==
    [ call_count |-> call_count[a], stop |-> stop[a],
      response_ids |-> response_ids[a], pass_ |-> pass_[a],
      feedback |-> feedback[a] ]

\* a reset that also forgets the conversation
reset_call_count_forgets(ag) ==
    [ag EXCEPT !.call_count = 0, !.stop = FALSE, !.response_ids = <<>>]

\* Agent.reset_call_count: the fields it leaves behind
reset_call_count(ag) == [ag EXCEPT !.call_count = 0, !.stop = FALSE]

\* Agent.reset_call_count, called by the owner of an idle agent
ResetCallCount(a) ==
    /\ pc[a] = "idle"
    /\ reporter.num_resets < MaxResets
    /\ call_count' = [call_count EXCEPT ![a] = reset_call_count(Fields(a)).call_count]
    /\ stop' = [stop EXCEPT ![a] = reset_call_count(Fields(a)).stop]
    /\ response_ids' = [response_ids EXCEPT
                            ![a] = reset_call_count(Fields(a)).response_ids]
    /\ reporter' = AddNumResets(reporter)
    /\ UNCHANGED << max_calls, buffers, pc, messages,
                    last_response_id, response, tool_idx, tool_messages, result,
                    called, next_id,  left_over, turns, delegVars, taskVars >>

\* what the callers of the repository pass as last_response_id: nothing
LastResponseIds(a) == {NoId}

Next ==
    \E a \in Agents :
        \/ \E msgs \in CallArgs, lrid \in LastResponseIds(a) : Call(a, msgs, lrid)
        \/ \E out \in Outputs : CreateResponse(a, out)
        \/ ExecuteToolCall(a)
        \/ ExecuteReturn(a)
        \/ CallReturn(a)
        \/ ResetCallCount(a)

Spec == Init /\ [][Next]_vars

(* ------------------------------------------------------------------ *)
(* The buffer and its drain alone: any messages staged, then drained   *)
(* ------------------------------------------------------------------ *)
\* messages tools stage
Stageable ==
    {StagedMsg(h, <<1, 1>>) : h \in {"view_images", "view_text_files"}}
    \cup {StagedMsg("view_images", <<1, 2>>)}

\* a tool holding the buffer stages a message: buffer.add_msg(m)
Stage(b, m) ==
    /\ Len(buffers[b]) < MaxStaged
    /\ buffers' = [buffers EXCEPT ![b] = add_msg(@, m)]
    /\ UNCHANGED << max_calls, call_count, stop, response_ids, pc, messages,
                    last_response_id, response, tool_idx, tool_messages, result,
                    called, next_id, reporter, left_over, turns, delegVars,
                    taskVars >>

\* the drain of execute_tool_calls into a new list of tool messages
DrainBuffer(a) ==
    /\ LET dr == Drain(<<>>, buffers[BufferOf(a)])
       IN /\ tool_messages' = [tool_messages EXCEPT ![a] = dr.messages]
          /\ buffers' = [buffers EXCEPT ![BufferOf(a)] = dr.buffer]
    /\ UNCHANGED << max_calls, call_count, stop, response_ids, pc, messages,
                    last_response_id, response, tool_idx, result, called, next_id,
                    reporter, left_over, turns, delegVars, taskVars >>

NextBuf ==
    \/ \E a \in Agents, m \in Stageable : Stage(BufferOf(a), m)
    \/ \E a \in Agents : DrainBuffer(a)

SpecBuf == Init /\ [][NextBuf]_vars

(* ------------------------------------------------------------------ *)
(* Delegation: the researcher hands tasks to coders, whose write_python *)
(* tool has the paired reviewer review the code                        *)
(* (tools/handoff_to_coder.py, tools/write_python.py,                  *)
(*  agents/code_reviewer.py, tools/write_code_review.py)               *)
(* ------------------------------------------------------------------ *)
\* the coder_id values and the handoff requests the researcher's model
\* chooses from: two tasks for the first coder, one of them for the second
Keys == {1, 2}
HandoffArgs ==
    { [task |-> "t1", coder_id |-> 1], [task |-> "t2", coder_id |-> 1],
      [task |-> "t1", coder_id |-> 2] }

\* `if len(errors) > 10` of write_python
LintThreshold == 10

\* a check that sends every file to the reviewer
TooManyErrors_never(errors) == FALSE

\* `if len(errors) > 10` of write_python: the length of the report
TooManyErrors(errors) == Len(errors) > LintThreshold

\* WritePython.lint_file: pylint's JSON report of the errors of the file
lint_file(python_code) ==
    IF python_code = "faulty" THEN "[{type: error}]" ELSE "[]"

\* what the completion service may request of an agent in a delegation
\* (a coder or reviewer that answers with text alone runs no handler, as
\* with an empty output)
DelegItems(a) ==
    IF a = Researcher
    THEN {[type |-> "message", name |-> "", text |-> "pong", args |-> <<>>]}
         \cup
         {[type |-> "function_call", name |-> "handoff_to_coder", text |-> "",
           args |-> h] : h \in HandoffArgs}
    ELSE IF a \in CoderAgents
    THEN {[type |-> "function_call", name |-> "write_python", text |-> "",
           args |-> [python_code |-> c, filename |-> "f.py"]] :
              c \in {"clean", "faulty"}}
    ELSE {[type |-> "function_call", name |-> "write_code_review", text |-> "",
           args |-> [pass_ |-> p, feedback |-> "fb"]] : p \in BOOLEAN}

\* a turn that requests two tools: the researcher two handoffs, to the first
\* and to the second key, a coder two files, a reviewer two verdicts
TwoRequests(a) ==
    LET request(k) == [type |-> "function_call", name |-> "handoff_to_coder",
                       text |-> "", args |-> [task |-> "t1", coder_id |-> k]]
        file == [type |-> "function_call", name |-> "write_python",
                 text |-> "",
                 args |-> [python_code |-> "clean", filename |-> "f.py"]]
        verdict(p, fb) == [type |-> "function_call",
                           name |-> "write_code_review", text |-> "",
                           args |-> [pass_ |-> p, feedback |-> fb]]
    IN IF a = Researcher THEN {<< request(1), request(2) >>}
       ELSE IF a \in CoderAgents THEN {<< file, file >>}
       ELSE {<< verdict(FALSE, "fb"), verdict(TRUE, "fb2") >>}

\* the outputs the completion service may answer with
OutputsOf(a) == SeqsUpTo(DelegItems(a), MaxDelegItems) \cup TwoRequests(a)

\* the strings of a sequence joined into one
RECURSIVE JoinText(_)
JoinText(seq) ==
    IF seq = <<>> THEN "" ELSE Head(seq) \o JoinText(Tail(seq))

\* a lookup that never finds the key
LookupCoder_never_finds(cs, coder_id, i) == NoCoder

\* `for c in self.coders: if c['id'] == coder_id: coder = c['coder']`: the
\* coder of the last entry with that id, NoCoder if there is none
RECURSIVE LookupCoder(_, _, _)
LookupCoder(cs, coder_id, i) ==
    IF i > Len(cs) THEN NoCoder
    ELSE LET later == LookupCoder(cs, coder_id, i + 1)
         IN IF later # NoCoder THEN later
            ELSE IF cs[i].id = coder_id THEN cs[i].coder ELSE NoCoder

\* a loop that resets nothing
Matching_nothing(cs, coder_id) == {}

\* the coders of all the entries with that id: the loop resets each
Matching(cs, coder_id) ==
    {cs[i].coder : i \in {j \in 1..Len(cs) : cs[j].id = coder_id}}

\* a reset that also clears the call counter
reset_clears_counter(rv) ==
    [rv EXCEPT !.pass_ = FALSE, !.feedback = "", !.stop = FALSE,
               !.response_ids = <<>>, !.call_count = 0]

\* a reset that keeps the verdict of the review before
reset_keeps_verdict(rv) == [rv EXCEPT !.stop = FALSE, !.response_ids = <<>>]

\* CodeReviewer.reset: the fields it leaves behind
reset(rv) ==
    [rv EXCEPT !.pass_ = FALSE, !.feedback = "", !.stop = FALSE,
               !.response_ids = <<>>]

\* the item the for loop of execute_tool_calls stands at
CurrentItem(a) == response[a].output[tool_idx[a]]

\* the agent is about to dispatch a request that resolves to this handler
AtHandler(a, handler) ==
    /\ pc[a] = "exec"
    /\ tool_idx[a] <= Len(response[a].output)
    /\ CurrentItem(a).type = "function_call"
    /\ LET i == FindTool(ToolsOf(a), CurrentItem(a).name, 1)
       IN i # 0 /\ ToolsOf(a)[i].handler = handler

\* the rest of one pass of execute_tool_calls once call_function has the
\* result: the tool_calls metric, the result message, the drain
FinishDispatch(a, res, rep) ==
    LET b == BufferOf(a)
        msgs == Append(tool_messages[a],
                       FunctionCallOutput(CurrentItem(a).call_id, res))
        dr == Drain(msgs, buffers[b])
    IN /\ tool_messages' = [tool_messages EXCEPT ![a] = dr.messages]
       /\ buffers' = [buffers EXCEPT ![b] = dr.buffer]
       /\ reporter' = AddToolCalls(rep)
       /\ tool_idx' = [tool_idx EXCEPT ![a] = @ + 1]

InitDeleg ==
    /\ max_calls = [a \in DelegAgents |-> MaxDelegBudget]
    /\ InitAgents(DelegAgents)
    /\ InitDelegation(DelegAgents)
    /\ InitTasks

\* what the driver passes as last_response_id: nothing, or the id of the
\* first turn of the researcher's conversation
DriverLastResponseIds ==
    {NoId} \cup (IF response_ids[Researcher] = <<>> THEN {}
                 ELSE {response_ids[Researcher][1]})

\* the driver calls the researcher; it catches nothing, so a fault that
\* reached it has ended the program
DriverCall(lrid) ==
    /\ result[Researcher].kind # "Fault"
    /\ Call(Researcher, <<UserMsg("ping")>>, lrid)

\* a turn of an agent of the delegation, while the completion service answers
DelegCreateResponse(a) ==
    /\ pc[a] = "while"
    /\ next_id <= MaxDelegTurns
    /\ \E out \in OutputsOf(a) : CreateTurn(a, out)

\* a pass of execute_tool_calls that runs no handler of the delegation
SkipOrUnknown(a) ==
    /\ pc[a] = "exec"
    /\ tool_idx[a] <= Len(response[a].output)
    /\ (CurrentItem(a).type # "function_call"
           \/ FindTool(ToolsOf(a), CurrentItem(a).name, 1) = 0)
    /\ ExecuteToolCall(a)

\* Tool.run and HandoffToCoder.handoff_to_coder up to coder.call([message]),
\* and the entry of that call()
HandoffToCoder(a) ==
    /\ AtHandler(a, "handoff_to_coder")
    /\ LET key == CurrentItem(a).args.coder_id
           tk == CurrentItem(a).args.task
           found == LookupCoder(coders, key, 1)
           matching == Matching(coders, key)
           reviewers == {ReviewerOf(m) : m \in matching}
           resets == matching \cup reviewers
           new == CoderName(Len(coders) + 1)
           c == IF found = NoCoder THEN new ELSE found
           after(x) == IF x \in resets THEN reset_call_count(Fields(x))
                       ELSE Fields(x)
           rep1 == AddToolCallsBy(reporter, "handoff_to_coder")
           \* two reset_call_count per matching entry
           rep2 == [rep1 EXCEPT !.num_resets = @ + 2 * Cardinality(matching)]
       IN /\ found = NoCoder => Len(coders) < MaxCoders
          /\ coders' = IF found = NoCoder
                       THEN Append(coders, [id |-> key, coder |-> new])
                       ELSE coders
          /\ coder' = c
          /\ keys_used' = keys_used \cup {key}
          /\ task' = [x \in DOMAIN task |->
                        IF x \in reviewers \/ (found = NoCoder /\ x = ReviewerOf(new))
                        THEN tk ELSE task[x]]
          /\ call_count' = [x \in DOMAIN call_count |-> after(x).call_count]
          /\ stop' = [x \in DOMAIN stop |-> after(x).stop]
          /\ response_ids' = [x \in DOMAIN response_ids |-> after(x).response_ids]
          /\ reporter' = IF found = NoCoder THEN AddDifferentCoders(rep2) ELSE rep2
          /\ called' = [called EXCEPT ![c] =
                          [ made |-> TRUE, args |-> <<UserMsg(tk)>>,
                            call_count |-> after(c).call_count,
                            stop |-> after(c).stop,
                            response_ids |-> after(c).response_ids ]]
          /\ pc' = [pc EXCEPT ![a] = "tool", ![c] = "while"]
          /\ messages' = [messages EXCEPT ![c] = <<UserMsg(tk)>>]
          /\ last_response_id' = [last_response_id EXCEPT ![c] = NoId]
          /\ response' = [response EXCEPT ![c] = NoResponse]
          /\ result' = [result EXCEPT ![c] = [kind |-> "none", text |-> <<>>]]
    /\ UNCHANGED << max_calls, buffers, tool_idx, tool_messages, next_id,
                    left_over, turns, pass_, feedback, recorded, stop_tool,
                    tool_schema, taskVars >>

\* a tool that does not wait for the agent it called
CallReturned_at_once(x) == TRUE

\* `response = coder.call([message])`, `_ = self.call(messages)`: the tool
\* goes on when the call() of the agent it called has ended
CallReturned(x) == pc[x] = "idle"

\* coder.call returned: handoff_to_coder returns its response
HandoffReturn(a) ==
    /\ pc[a] = "tool"
    /\ ToolsOf(a)[FindTool(ToolsOf(a), CurrentItem(a).name, 1)].handler
          = "handoff_to_coder"
    /\ CallReturned(coder)
    /\ FinishDispatch(a, JoinText(result[coder].text), reporter)
    /\ coder' = NoCoder
    /\ pc' = [pc EXCEPT ![a] = "exec"]
    /\ UNCHANGED << max_calls, call_count, stop, response_ids, messages,
                    last_response_id, response, result, called, next_id,
                    left_over, turns, coders, keys_used, pass_, feedback, task,
                    recorded, stop_tool, tool_schema, taskVars >>

\* Tool.run and WritePython.write_python: the lint, and either the errors
\* as the result or reviewer.reset() and reviewer.review(path) up to the
\* entry of the reviewer's call()
WritePython(c) ==
    /\ AtHandler(c, "write_python")
    /\ LET args == CurrentItem(c).args
           errors == lint_file(args.python_code)
           rv == ReviewerOf(c)
           rep1 == AddToolCallsBy(reporter, "write_python")
           after == reset(Fields(rv))
           msgs == << UserMsg("Code to be reviewed: " \o args.python_code),
                      UserMsg(task[rv]) >>
       IN IF TooManyErrors(errors)
          THEN /\ FinishDispatch(c, args.filename \o ": " \o errors,
                                 AddLintErrors(rep1))
               /\ UNCHANGED << call_count, stop, response_ids, pc, messages,
                               last_response_id, response, result, called,
                               pass_, feedback, recorded >>
          ELSE /\ reporter' = rep1
               /\ pass_' = [pass_ EXCEPT ![rv] = after.pass_]
               /\ feedback' = [feedback EXCEPT ![rv] = after.feedback]
               /\ recorded' = [recorded EXCEPT ![rv] = FALSE]
               /\ stop' = [stop EXCEPT ![rv] = after.stop]
               /\ response_ids' = [response_ids EXCEPT ![rv] = after.response_ids]
               /\ call_count' = [call_count EXCEPT ![rv] = after.call_count]
               /\ called' = [called EXCEPT ![rv] =
                               [ made |-> TRUE, args |-> msgs,
                                 call_count |-> after.call_count,
                                 stop |-> after.stop,
                                 response_ids |-> after.response_ids ]]
               /\ pc' = [pc EXCEPT ![c] = "tool", ![rv] = "while"]
               /\ messages' = [messages EXCEPT ![rv] = msgs]
               /\ last_response_id' = [last_response_id EXCEPT ![rv] = NoId]
               /\ response' = [response EXCEPT ![rv] = NoResponse]
               /\ result' = [result EXCEPT ![rv] = [kind |-> "none", text |-> <<>>]]
               /\ UNCHANGED << tool_idx, tool_messages, buffers >>
    /\ UNCHANGED << max_calls, next_id, left_over, turns, coders, coder,
                    keys_used, task, stop_tool, tool_schema, taskVars >>

\* the reviewer's call() returned: the rest of review() and of write_python
ReviewReturn(c) ==
    /\ pc[c] = "tool"
    /\ ToolsOf(c)[FindTool(ToolsOf(c), CurrentItem(c).name, 1)].handler
          = "write_python"
    /\ LET rv == ReviewerOf(c)
           filename == CurrentItem(c).args.filename
       IN /\ CallReturned(rv)
          /\ IF pass_[rv]
             THEN FinishDispatch(c,
                     filename \o " saved successfully. Code passed the review. Feedback: "
                         \o feedback[rv],
                     AddPassedReviews(reporter))
             ELSE FinishDispatch(c,
                     filename \o " saved successfully. Code did not pass the review. Feedback: "
                         \o feedback[rv],
                     AddFailedReviews(reporter))
    /\ pc' = [pc EXCEPT ![c] = "exec"]
    /\ UNCHANGED << max_calls, call_count, stop, response_ids, messages,
                    last_response_id, response, result, called, next_id,
                    left_over, turns, delegVars, taskVars >>

\* a verdict that leaves the reviewer running
write_code_review_goes_on(rv, p, fb) ==
    [rv EXCEPT !.pass_ = p, !.feedback = fb]

\* WriteCodeReview.write_code_review: the fields of the reviewer it leaves
write_code_review(rv, p, fb) ==
    [rv EXCEPT !.stop = TRUE, !.pass_ = p, !.feedback = fb]

\* Tool.run and WriteCodeReview.write_code_review, dispatched by the reviewer
WriteCodeReview(r) ==
    /\ AtHandler(r, "write_code_review")
    /\ LET args == CurrentItem(r).args
           rep1 == AddToolCallsBy(reporter, "write_code_review")
           after == write_code_review(Fields(r), args.pass_, args.feedback)
       IN /\ stop' = [stop EXCEPT ![r] = after.stop]
          /\ pass_' = [pass_ EXCEPT ![r] = after.pass_]
          /\ feedback' = [feedback EXCEPT ![r] = after.feedback]
          /\ recorded' = [recorded EXCEPT ![r] = TRUE]
          /\ FinishDispatch(r,
                (IF args.pass_ THEN "Code passed the review. Feedback: "
                 ELSE "Code did not pass the review. Feedback: ") \o args.feedback,
                rep1)
    /\ UNCHANGED << max_calls, call_count, response_ids, pc, messages,
                    last_response_id, response, result, called, next_id,
                    left_over, turns, coders, coder, keys_used, task, stop_tool,
                    tool_schema, taskVars >>

\* a fault caught by the caller of the handler that raised it
Propagates_to_caller_only(x, a) == x = a

\* the frames an exception raised in a handler of agent a unwinds: nothing
\* on the way up catches it (Tool.run, call_function, execute_tool_calls,
\* call, review, write_python, handoff_to_coder), so every call() that is
\* running ends with it
Propagates(x, a) == pc[x] # "idle"

\* Tool.run when `self.function(**parameters)` raises, for instance a
\* TypeError for arguments that do not fit the handler: the per-tool metric
\* is written, nothing after the raise runs
HandlerFault(a) ==
    /\ pc[a] = "exec"
    /\ tool_idx[a] <= Len(response[a].output)
    /\ CurrentItem(a).type = "function_call"
    /\ FindTool(ToolsOf(a), CurrentItem(a).name, 1) # 0
    /\ LET gone == {x \in DelegAgents : Propagates(x, a)}
           clear(f, v) == [x \in DOMAIN f |-> IF x \in gone THEN v ELSE f[x]]
       IN /\ reporter' = AddToolCallsBy(reporter,
                 ToolsOf(a)[FindTool(ToolsOf(a), CurrentItem(a).name, 1)].name)
          /\ result' = clear(result, [kind |-> "Fault", text |-> <<>>])
          /\ pc' = clear(pc, "idle")
          /\ messages' = clear(messages, <<>>)
          /\ last_response_id' = clear(last_response_id, NoId)
          /\ response' = clear(response, NoResponse)
          /\ tool_idx' = clear(tool_idx, 1)
          /\ tool_messages' = clear(tool_messages, <<>>)
          /\ coder' = IF Researcher \in gone THEN NoCoder ELSE coder
    /\ UNCHANGED << max_calls, call_count, stop, response_ids, buffers, called,
                    next_id, left_over, turns, coders, keys_used, pass_,
                    feedback, task, recorded, stop_tool, tool_schema,
                    taskVars >>

NextDeleg ==
    \/ \E lrid \in DriverLastResponseIds : DriverCall(lrid)
    \/ \E a \in DelegAgents :
        \/ DelegCreateResponse(a)
        \/ SkipOrUnknown(a)
        \/ HandoffToCoder(a)
        \/ HandoffReturn(a)
        \/ WritePython(a)
        \/ ReviewReturn(a)
        \/ WriteCodeReview(a)
        \/ HandlerFault(a)
        \/ ExecuteReturn(a)
        \/ CallReturn(a)

SpecDeleg == InitDeleg /\ [][NextDeleg]_vars

\* the max_calls the reviewers are built with where the reviewer's budget is
\* what is looked at (code_reviewer.py passes none: the default of Agent)
ReviewerBudget == 0

\* the delegation with reviewers of a small budget
InitReviews ==
    /\ max_calls = [a \in DelegAgents |->
                       IF a \in ReviewerAgents THEN ReviewerBudget
                       ELSE MaxDelegBudget]
    /\ InitAgents(DelegAgents)
    /\ InitDelegation(DelegAgents)
    /\ InitTasks

SpecReviews == InitReviews /\ [][NextDeleg]_vars

(* ------------------------------------------------------------------ *)
(* The driver loop and the researcher's own tools                      *)
(* (projects/default.py, tools/end_project.py, tools/view_images.py,   *)
(*  tools/view_text_files.py)                                          *)
(* ------------------------------------------------------------------ *)
\* the files of the work directory
WorkDir == {"a"}

\* the filenames a viewing tool is asked for
ViewRequests == {<< "a", "b" >>, << "b" >>}

\* what the completion service may request of the driver's researcher:
\* a text, the end of the project, images, or text files that do not exist
MainItems ==
    {[type |-> "message", name |-> "", text |-> "pong", args |-> <<>>],
     [type |-> "function_call", name |-> "end_project", text |-> "",
      args |-> <<>>],
     [type |-> "function_call", name |-> "view_text_files", text |-> "",
      args |-> [filenames |-> << "b" >>]]}
    \cup {[type |-> "function_call", name |-> "view_images", text |-> "",
           args |-> [filenames |-> f]] : f \in ViewRequests}

\* a turn that requests the end of the project and then one tool more
EndAndMore ==
    LET end == [type |-> "function_call", name |-> "end_project", text |-> "",
                args |-> <<>>]
    IN {<< end, more >> : more \in {m \in MainItems : m.name = "view_images"}}

MainOutputs == SeqsUpTo(MainItems, MaxMainItems) \cup EndAndMore

\* a loop that goes on while the project is not ended
LoopTest_project_only(stop_tool_stop, physicist_stop) == ~stop_tool_stop

\* `while not stop_tool.stop and not physicist.stop` of main()
LoopTest(stop_tool_stop, physicist_stop) ==
    ~stop_tool_stop /\ ~physicist_stop

\* `message` of main(): the info of the first task, and "" once a call
\* has returned (`message["content"] = ""`)
MainMessage ==
    IF called[Physicist].made THEN UserMsg("") ELSE UserMsg("task 1")

\* the loop of main() is over
MainDone ==
    pc[Physicist] = "idle" /\ ~LoopTest(stop_tool, stop[Physicist])

InitMain ==
    /\ max_calls = [a \in {Physicist} |-> MaxMainBudget]
    /\ InitAgents({Physicist})
    /\ InitDelegation({Physicist})
    /\ InitTasks

\* one pass of the loop of main(): physicist.call([message])
MainCall ==
    /\ LoopTest(stop_tool, stop[Physicist])
    /\ Call(Physicist, << MainMessage >>, NoId)

\* a turn of the driver's researcher
MainCreateResponse(a) ==
    /\ pc[a] = "while"
    /\ \E out \in MainOutputs : CreateTurn(a, out)

\* Tool.run and EndProject.end_project
EndProject(a) ==
    /\ AtHandler(a, "end_project")
    /\ stop_tool' = TRUE
    /\ FinishDispatch(a, "The project was finished with the following reason: ",
                      AddToolCallsBy(reporter, "end_project"))
    /\ UNCHANGED << max_calls, call_count, stop, response_ids, pc, messages,
                    last_response_id, response, result, called, next_id,
                    left_over, turns, coders, coder, keys_used, pass_,
                    feedback, task, recorded, tool_schema, taskVars >>

\* the `success` and `failure` lists of view_images and view_text_files
RECURSIVE Existing(_)
Existing(filenames) ==
    IF filenames = <<>> THEN <<>>
    ELSE (IF Head(filenames) \in WorkDir THEN << Head(filenames) >> ELSE <<>>)
         \o Existing(Tail(filenames))

RECURSIVE Missing(_)
Missing(filenames) ==
    IF filenames = <<>> THEN <<>>
    ELSE (IF Head(filenames) \in WorkDir THEN <<>> ELSE << Head(filenames) >>)
         \o Missing(Tail(filenames))

\* a viewing tool that stages nothing when no file exists
ViewStages_existing_only(handler, cid, filenames) ==
    IF Existing(filenames) = <<>> THEN <<>>
    ELSE << [type |-> "user", call_id |-> cid,
             content |-> handler \o ": " \o JoinText(Existing(filenames))] >>

\* `self.prepared_message_buffer.add_msg(img_msg)`: the one message the
\* handler stages, with the content of the files that exist (the call id
\* tells the messages of two dispatches apart)
ViewStages(handler, cid, filenames) ==
    << [type |-> "user", call_id |-> cid,
        content |-> handler \o ": " \o JoinText(Existing(filenames))] >>

\* Tool.run and ViewImages.view_images or ViewTextFiles.view_text_files
ViewFiles(a) ==
    /\ \/ AtHandler(a, "view_images")
       \/ AtHandler(a, "view_text_files")
    /\ LET item == CurrentItem(a)
           b == BufferOf(a)
           staged == buffers[b] \o ViewStages(item.name, item.call_id,
                                              item.args.filenames)
           res == "appended: " \o JoinText(Existing(item.args.filenames))
                    \o ", do not exist: "
                    \o JoinText(Missing(item.args.filenames))
           msgs == Append(tool_messages[a],
                          FunctionCallOutput(item.call_id, res))
           dr == Drain(msgs, staged)
       IN /\ tool_messages' = [tool_messages EXCEPT ![a] = dr.messages]
          /\ buffers' = [buffers EXCEPT ![b] = dr.buffer]
          /\ reporter' = AddToolCalls(AddToolCallsBy(reporter, item.name))
          /\ tool_idx' = [tool_idx EXCEPT ![a] = @ + 1]
    /\ UNCHANGED << max_calls, call_count, stop, response_ids, pc, messages,
                    last_response_id, response, result, called, next_id,
                    left_over, turns, delegVars, taskVars >>

NextMain ==
    \/ MainCall
    \/ \E a \in {Physicist} :
        \/ MainCreateResponse(a)
        \/ EndProject(a)
        \/ ViewFiles(a)
        \/ SkipOrUnknown(a)
        \/ ExecuteReturn(a)
        \/ CallReturn(a)

SpecMain == InitMain /\ [][NextMain]_vars

\* the completion service answers and the interpreter goes on: a step that
\* can be taken is taken
SpecMainFair == SpecMain /\ WF_vars(NextMain)

(* ------------------------------------------------------------------ *)
(* A tool builds its schema (tools/tool.py)                            *)
(* ------------------------------------------------------------------ *)
\* the lists of parameters a tool declares
ParamLists == SeqsUpTo(ParamSpecs, MaxParams)

\* Tool.build_parameter_schema for each parameter, then
\* Tool.build_function_schema, as the __init__ of every tool calls them
BuildSchema(specs) ==
    /\ ~tool_schema.built
    /\ tool_schema' =
          [ specs |-> specs, parameters |-> Built(specs), built |-> TRUE,
            schema |-> build_function_schema("f", "d", Built(specs)) ]
    /\ UNCHANGED << max_calls, call_count, stop, response_ids, buffers, pc,
                    messages, last_response_id, response, tool_idx,
                    tool_messages, result, called, next_id, reporter,
                    left_over, turns, coders, coder, keys_used, pass_,
                    feedback, task, recorded, stop_tool, taskVars >>

NextSchema == \E specs \in ParamLists : BuildSchema(specs)

\* a tool under construction, before any agent holds it
InitSchema ==
    /\ max_calls = [a \in Agents |-> MaxBudget]
    /\ InitAgents(Agents)
    /\ InitDelegation(Agents)
    /\ InitTasks

SpecSchema == InitSchema /\ [][NextSchema]_vars

(* ------------------------------------------------------------------ *)
(* Task manager (utility/task_manager.py, utility/task.py)             *)
(* ------------------------------------------------------------------ *)
\* self.report = None
NoReport == <<>>

\* the comment activate_task records on the task it deactivates
AutoComment == "Deactivated due to new activation."

\* comments and reports the callers pass
Comments == {"c1", "c2"}
Reports == {"r1"}

\* Task.__init__; name, description and work_dir are never changed nor read
\* by the task manager and are left out
Task(id) ==
    [task_id |-> id, task_status |-> -1, comment |-> <<>>, report |-> NoReport]

\* Task.activate_task
Task_activate_task(t) == [t EXCEPT !.task_status = 0]

\* a deactivation that puts the comment in front of the log
Task_deactivate_task_prepends(t, comment) ==
    [t EXCEPT !.task_status = -1, !.comment = <<comment>> \o @]

\* Task.deactivate_task
Task_deactivate_task(t, comment) ==
    [t EXCEPT !.task_status = -1, !.comment = Append(@, comment)]

\* Task.complete_task
Task_complete_task(t, report) ==
    [t EXCEPT !.task_status = 1, !.report = <<report>>]

\* Task.get_task_status
get_task_status(t) ==
    IF t.task_status = 0 THEN "active"
    ELSE IF t.task_status = -1 THEN "inactive"
    ELSE IF t.task_status = 1 THEN "completed"
    ELSE "unknown"

\* Task.get_task_overview
get_task_overview(t) ==
    [task_id |-> t.task_id, task_status |-> get_task_status(t)]

\* Task.get_task_info
get_task_info(t) ==
    [ task_id |-> t.task_id, task_status |-> get_task_status(t),
      comment |-> t.comment, report |-> t.report ]

\* `for task in self.tasks: if task.task_id == task_id`: the position of the
\* first task with that id, 0 if the loop falls through
RECURSIVE FindTask(_, _, _)
FindTask(ts, task_id, i) ==
    IF i > Len(ts) THEN 0
    ELSE IF ts[i].task_id = task_id THEN i
    ELSE FindTask(ts, task_id, i + 1)

\* the task manager as a value: what the operations below work on
Manager == [tasks |-> tasks, active_task |-> active_task]

\* a listing that leaves no task out
RECURSIVE show_tasks_lists_all(_, _)
show_tasks_lists_all(ts, i) ==
    IF i > Len(ts) THEN <<>>
    ELSE <<get_task_overview(ts[i])>> \o show_tasks_lists_all(ts, i + 1)

\* TaskManager.show_tasks, from task i on
RECURSIVE show_tasks(_, _)
show_tasks(ts, i) ==
    IF i > Len(ts) THEN <<>>
    ELSE (IF ts[i].task_status # 1 THEN <<get_task_overview(ts[i])>> ELSE <<>>)
         \o show_tasks(ts, i + 1)

\* TaskManager.show_task_info
show_task_info(ts, task_id) ==
    LET i == FindTask(ts, task_id, 1)
    IN IF i = 0 THEN [text |-> "Task not found.", shown |-> <<>>]
       ELSE [text |-> "", shown |-> <<get_task_info(ts[i])>>]

\* a deactivation that clears the pointer before it looks for the task
deactivate_task_clears_first(tm, task_id, comment) ==
    LET i == FindTask(tm.tasks, task_id, 1)
    IN IF i = 0
       THEN [tasks |-> tm.tasks, active_task |-> -1, text |-> "Task not found."]
       ELSE [ tasks |-> [tm.tasks EXCEPT ![i] = Task_deactivate_task(@, comment)],
              active_task |-> -1,
              text |-> "Task " \o ToString(task_id) \o " deactivated." ]

\* TaskManager.deactivate_task
deactivate_task(tm, task_id, comment) ==
    LET i == FindTask(tm.tasks, task_id, 1)
    IN IF i = 0
       THEN [tasks |-> tm.tasks, active_task |-> tm.active_task,
             text |-> "Task not found."]
       ELSE [ tasks |-> [tm.tasks EXCEPT ![i] = Task_deactivate_task(@, comment)],
              active_task |-> -1,
              text |-> "Task " \o ToString(task_id) \o " deactivated." ]

\* TaskManager.activate_task
activate_task(tm, task_id) ==
    LET i == FindTask(tm.tasks, task_id, 1)
    IN IF i = 0
       THEN [tasks |-> tm.tasks, active_task |-> tm.active_task,
             text |-> "Task not found."]
       ELSE LET d == IF tm.active_task # -1
                     THEN deactivate_task(tm, tm.active_task, AutoComment)
                     ELSE [tasks |-> tm.tasks, active_task |-> tm.active_task,
                           text |-> ""]
            IN [ tasks |-> [d.tasks EXCEPT ![i] = Task_activate_task(@)],
                 active_task |-> task_id,
                 text |-> "Task " \o ToString(task_id) \o " activated." ]

\* TaskManager.complete_task
complete_task(tm, task_id, report) ==
    LET i == FindTask(tm.tasks, task_id, 1)
    IN IF i = 0
       THEN [tasks |-> tm.tasks, active_task |-> tm.active_task,
             text |-> "Task not found."]
       ELSE [ tasks |-> [tm.tasks EXCEPT ![i] = Task_complete_task(@, report)],
              active_task |-> -1,
              text |-> "Task " \o ToString(task_id) \o " completed." ]

\* the ids the callers pass; an id is unknown until its task is added
TaskIds == 1..MaxTasks

\* the comments recorded so far, over all tasks
RECURSIVE TotalComments(_)
TotalComments(ts) ==
    IF ts = <<>> THEN 0 ELSE Len(Head(ts).comment) + TotalComments(Tail(ts))

agentVars ==
    << max_calls, call_count, stop, response_ids, buffers, pc, messages,
       last_response_id, response, tool_idx, tool_messages, result, called,
       next_id, reporter, left_over, turns >>

\* an operation that may change the tasks has returned
Returned(op, id, arg, r) ==
    /\ tasks' = r.tasks
    /\ active_task' = r.active_task
    /\ tm_result' = [op |-> op, id |-> id, arg |-> arg, text |-> r.text,
                     shown |-> <<>>]
    /\ UNCHANGED << agentVars, delegVars >>

\* TaskManager.add_task of a new Task, numbered as the driver and the
\* add_task tool number them: 1, 2, ...
AddTask ==
    /\ Len(tasks) < MaxTasks
    /\ Returned("add_task", Len(tasks) + 1, "",
                [tasks |-> Append(tasks, Task(Len(tasks) + 1)),
                 active_task |-> active_task, text |-> ""])

ActivateTask(id) ==
    /\ (active_task # -1 /\ FindTask(tasks, id, 1) # 0)
          => TotalComments(tasks) < MaxComments
    /\ Returned("activate_task", id, "", activate_task(Manager, id))

DeactivateTask(id, comment) ==
    /\ TotalComments(tasks) < MaxComments
    /\ Returned("deactivate_task", id, comment,
                deactivate_task(Manager, id, comment))

CompleteTask(id, report) ==
    /\ report \in Reports
    /\ Returned("complete_task", id, report, complete_task(Manager, id, report))

ShowTasks ==
    /\ tm_result' = [op |-> "show_tasks", id |-> 0, arg |-> "", text |-> "",
                     shown |-> show_tasks(tasks, 1)]
    /\ UNCHANGED << tasks, active_task, agentVars, delegVars >>

ShowTaskInfo(id) ==
    /\ LET r == show_task_info(tasks, id)
       IN tm_result' = [op |-> "show_task_info", id |-> id, arg |-> "",
                        text |-> r.text, shown |-> r.shown]
    /\ UNCHANGED << tasks, active_task, agentVars, delegVars >>

NextTasks ==
    \/ AddTask
    \/ \E id \in TaskIds : ActivateTask(id)
    \/ \E id \in TaskIds, c \in Comments : DeactivateTask(id, c)
    \/ \E id \in TaskIds, r \in Reports : CompleteTask(id, r)
    \/ ShowTasks
    \/ \E id \in TaskIds : ShowTaskInfo(id)

\* a task manager just constructed; the agents are not used
InitTaskManager ==
    /\ max_calls = [a \in Agents |-> 0]
    /\ InitAgents(Agents)
    /\ InitDelegation(Agents)
    /\ InitTasks

SpecTasks == InitTaskManager /\ [][NextTasks]_vars

(* ------------------------------------------------------------------ *)
(* The task tools of the researcher (tools/task_tools)                 *)
(* ------------------------------------------------------------------ *)
\* `int(new_id)` raised ValueError
NotAnInteger == -2

\* what the model passes as new_id: the ids of the tasks there can be, one
\* id more, and a text that is no number
NewIds == {ToString(n) : n \in 1..(MaxTasks + 1)} \cup {"x"}

\* int(new_id)
IntOf(new_id) ==
    IF \E n \in 1..(MaxTasks + 1) : ToString(n) = new_id
    THEN CHOOSE n \in 1..(MaxTasks + 1) : ToString(n) = new_id
    ELSE NotAnInteger

\* the manager an operation leaves behind
After(r) == [tasks |-> r.tasks, active_task |-> r.active_task]

\* SelectTask.select_task
SelectTask_select_task(tm, new_id, comment) ==
    LET n == IntOf(new_id)
        d == IF tm.active_task # -1
             THEN [deactivate_task(tm, tm.active_task, comment)
                       EXCEPT !.text = "\n" \o @]
             ELSE [tasks |-> tm.tasks, active_task |-> tm.active_task,
                   text |-> ""]
        a == activate_task(After(d), n)
    IN IF n = NotAnInteger
       THEN [tasks |-> tm.tasks, active_task |-> tm.active_task,
             text |-> "The task ID must be an integer."]
       ELSE IF FindTask(d.tasks, n, 1) # 0
       THEN [a EXCEPT !.text = d.text \o "\n" \o @]
       ELSE [d EXCEPT !.text = @ \o "\n" \o "Task not found."]

\* a completion of the first task, whichever is active
CompleteTask_complete_task_first(tm, report) == complete_task(tm, 1, report)

\* CompleteTask.complete_task
CompleteTask_complete_task(tm, report) ==
    IF tm.active_task = -1
    THEN [tasks |-> tm.tasks, active_task |-> tm.active_task,
          text |-> "No active task to complete."]
    ELSE complete_task(tm, tm.active_task, report)

\* AddTask.add_task: the new task is numbered len(tasks) + 1
AddTask_add_task(tm) ==
    [ tasks |-> Append(tm.tasks, Task(Len(tm.tasks) + 1)),
      active_task |-> tm.active_task,
      text |-> "Task added successfully." ]

\* the add_task tool ran
ToolAddTask ==
    /\ Len(tasks) < MaxTasks
    /\ Returned("add_task", Len(tasks) + 1, "", AddTask_add_task(Manager))

\* the select_task tool ran
ToolSelectTask(new_id, comment) ==
    /\ (active_task # -1 /\ IntOf(new_id) # NotAnInteger)
          => TotalComments(tasks) < MaxComments
    /\ Returned("select_task", IntOf(new_id), comment,
                SelectTask_select_task(Manager, new_id, comment))

\* the complete_task tool ran
ToolCompleteTask(report) ==
    /\ report \in Reports
    /\ Returned("complete_task", active_task, report,
                CompleteTask_complete_task(Manager, report))

NextTaskTools ==
    \/ ToolAddTask
    \/ \E id \in NewIds, c \in Comments \cup {""} : ToolSelectTask(id, c)
    \/ \E r \in Reports : ToolCompleteTask(r)

\* main() of projects/default.py: task 1 added and activated
InitDriver ==
    /\ max_calls = [a \in Agents |-> 0]
    /\ InitAgents(Agents)
    /\ InitDelegation(Agents)
    /\ LET r == activate_task([tasks |-> <<Task(1)>>, active_task |-> -1], 1)
       IN tasks = r.tasks /\ active_task = r.active_task
    /\ tm_result = NoResult

SpecTaskTools == InitDriver /\ [][NextTaskTools]_vars

(* ------------------------------------------------------------------ *)
(* Vocabulary of the properties                                        *)
(* ------------------------------------------------------------------ *)
IsFunctionCall(item) == item.type = "function_call"
IsMessage(item) == item.type = "message"
IsResult(m) == m.type = "function_call_output"

\* the tool-call requests of an output, in output order
Calls(out) == SelectSeq(out, IsFunctionCall)

\* the tool-result messages of a message list, in order
Results(msgs) == SelectSeq(msgs, IsResult)

CallIds(seq) == [i \in 1..Len(seq) |-> seq[i].call_id]

\* the texts of the message items of an output, in order
AssistantText(out) ==
    LET ms == SelectSeq(out, IsMessage) IN [i \in 1..Len(ms) |-> ms[i].text]

Registered(a) == {ToolsOf(a)[i].name : i \in 1..Len(ToolsOf(a))}

\* the agent was never used when call() was entered
Fresh(snap) ==
    snap.made /\ snap.call_count = 0 /\ ~snap.stop /\ snap.response_ids = <<>>

\* steps of the call loop
Returns(a) == pc[a] = "while" /\ pc'[a] = "idle"
Creates(a) == pc[a] = "while" /\ pc'[a] = "exec"
Dispatches(a) == pc[a] = "exec" /\ tool_idx'[a] = tool_idx[a] + 1

(* ------------------------------------------------------------------ *)
(* Properties                                                          *)
(* ------------------------------------------------------------------ *)

\* C1: call() with an empty message list raises ValueError whatever state the
\* agent is in, never enters the loop, and the step that raises leaves the
\* counter, the stopped flag, the chain, the reporter, the buffer and the
\* completion service untouched.
C1_EmptyCallRejected ==
    /\ [](\A a \in Agents :
            (called[a].made /\ called[a].args = <<>>)
                => (pc[a] = "idle" /\ result[a].kind = "ValueError"))
    /\ [][\A a \in Agents :
            (/\ result'[a].kind = "ValueError"
             /\ result[a].kind # "ValueError" \/ called'[a] # called[a])
                => UNCHANGED << call_count, stop, response_ids, reporter,
                                next_id, buffers, pc >>]_vars

\* C1 witness: an empty call was rejected on an agent that is exhausted
C1_Witness ==
    \E a \in Agents :
        /\ called[a].made /\ called[a].args = <<>>
        /\ result[a].kind = "ValueError"
        /\ stop[a] /\ call_count[a] > 0

\* C2 (as claimed): a call() with a non-empty list on a stopped agent fails
\* with MaxCallsExceededError and creates no turn.
C2_StoppedCallRaises ==
    \A a \in Agents :
        (pc[a] = "idle" /\ called[a].made /\ called[a].stop /\ called[a].args # <<>>)
            => (/\ result[a].kind = "MaxCallsExceededError"
                /\ response_ids[a] = called[a].response_ids)

\* C3: with max_calls = N and no reset, every attempt creates a turn, attempts
\* 1..N leave stopped false, attempt N+1 sets it, the tool calls of every turn
\* (the N+1-th included) are all dispatched, a call() whose last turn requested
\* tools returns only after N+1 turns, and there is never an N+2-th turn.
C3_OneTurnOverrun ==
    /\ [](\A a \in Agents :
            reporter.num_resets = 0 =>
                /\ Len(response_ids[a]) = call_count[a]
                /\ call_count[a] <= max_calls[a] + 1
                /\ stop[a] <=> (call_count[a] = max_calls[a] + 1)
                /\ (pc[a] = "while" /\ response[a] # NoResponse)
                      => CallIds(Results(messages[a]))
                            = CallIds(Calls(response[a].output)))
    /\ [][\A a \in Agents :
            (/\ Returns(a)
             /\ reporter.num_resets = 0
             /\ response[a] # NoResponse
             /\ Calls(response[a].output) # <<>>)
                => (stop[a] /\ Len(response_ids[a]) = max_calls[a] + 1)]_vars

\* C3 witness: the turn past the budget exists and its tool calls were dispatched
C3_Witness ==
    \E a \in Agents :
        /\ reporter.num_resets = 0
        /\ max_calls[a] >= 1
        /\ stop[a]
        /\ Len(response_ids[a]) = max_calls[a] + 1
        /\ pc[a] = "while"
        /\ Results(messages[a]) # <<>>

\* C4: a fresh agent with max_calls = 1, called with one user message, whose
\* first turn has no tool call and text T: call() returns T after exactly one
\* turn, with counter 1 and stopped false.
C4_LandingOnBudget ==
    [][\A a \in Agents :
        (/\ Returns(a)
         /\ max_calls[a] = 1
         /\ Fresh(called[a])
         /\ called[a].args = <<UserMsg("ping")>>
         /\ response[a] # NoResponse
         /\ response[a].previous_response_id = NoId
         /\ Calls(response[a].output) = <<>>)
            => (/\ result'[a] = [kind |-> "returned",
                                 text |-> AssistantText(response[a].output)]
                /\ Len(response_ids'[a]) = 1
                /\ call_count'[a] = 1
                /\ stop'[a] = FALSE)]_vars

\* C4 witness: the scenario ran and returned "pong"
C4_Witness ==
    \E a \in Agents :
        /\ pc[a] = "idle" /\ max_calls[a] = 1 /\ Fresh(called[a])
        /\ result[a] = [kind |-> "returned", text |-> <<"pong">>]
        /\ Len(response_ids[a]) = 1 /\ call_count[a] = 1 /\ ~stop[a]

C6_NextInputIsDispatchOutput ==
    [][\A a \in Agents :
        /\ Creates(a) =>
              /\ response'[a].input = messages[a]
              /\ messages[a] # <<>>
              /\ ~stop[a]
              /\ response[a] # NoResponse =>
                    /\ messages[a] = tool_messages[a]
                    /\ Calls(response[a].output) # <<>>
        /\ Returns(a) => (messages[a] = <<>> \/ stop[a])
        /\ (pc[a] = "exec" /\ pc'[a] = "while")
              => messages'[a] = tool_messages[a]]_vars

\* C6 witness: a second turn of one call() is being dispatched
C6_Witness ==
    \E a \in Agents :
        /\ pc[a] = "exec"
        /\ response[a].previous_response_id # NoId
        /\ response[a].input # <<>>
        /\ IsResult(response[a].input[1])

\* C7: the assembled list holds one result message per tool call dispatched
\* so far, in output order; every staged message stands behind the result of
\* the call that staged it and before the next result; a call of view_images
\* contributes exactly one staged message, any other call none; and the
\* buffer is empty after each drain.
C7_ResultThenDrained ==
    \A a \in Agents :
        (pc[a] \in {"exec", "while"} /\ response[a] # NoResponse) =>
            LET done == SubSeq(response[a].output, 1, tool_idx[a] - 1)
                tm == tool_messages[a]
            IN /\ CallIds(Results(tm)) = CallIds(Calls(done))
               /\ \A p \in 1..Len(tm) :
                     ~IsResult(tm[p]) => (p > 1 /\ tm[p].call_id = tm[p - 1].call_id)
               /\ \A i \in 1..Len(done) :
                     IsFunctionCall(done[i]) =>
                        Cardinality({p \in 1..Len(tm) :
                                       /\ ~IsResult(tm[p])
                                       /\ tm[p].call_id = done[i].call_id})
                          = IF done[i].name = "view_images" THEN 1 ELSE 0
               /\ buffers[BufferOf(a)] = <<>>

\* C7 witness: two staging calls of one turn were dispatched
C7_Witness ==
    \E a \in Agents :
        /\ pc[a] = "exec"
        /\ Len(tool_messages[a]) = 4
        /\ IsResult(tool_messages[a][1]) /\ ~IsResult(tool_messages[a][2])
        /\ IsResult(tool_messages[a][3]) /\ ~IsResult(tool_messages[a][4])

\* C8: a drain yields exactly the staged messages, in staging order, and
\* leaves the buffer empty (so the next drain yields nothing); staging
\* appends one message behind those already staged.
C8_DrainExhaustiveInOrder ==
    [][\A a \in Agents :
        LET b == BufferOf(a)
        IN /\ (tool_messages'[a] # tool_messages[a]
                  \/ Len(buffers'[b]) < Len(buffers[b]))
                => (tool_messages'[a] = buffers[b] /\ buffers'[b] = <<>>)
           /\ Len(buffers'[b]) > Len(buffers[b])
                => /\ Len(buffers'[b]) = Len(buffers[b]) + 1
                   /\ SubSeq(buffers'[b], 1, Len(buffers[b])) = buffers[b]
                   /\ tool_messages'[a] = tool_messages[a]]_vars

\* C8 witness: three messages, not all alike, were drained in one go
C8_Witness ==
    \E a \in Agents :
        /\ Len(tool_messages[a]) = 3
        /\ tool_messages[a][1] # tool_messages[a][3]
        /\ buffers[BufferOf(a)] = <<>>

\* C9: dispatching a request raises nothing and adds 1 to tool_calls; for a
\* name no tool has, the only new message is the result "function not found"
\* and no per-tool counter changes, and that message is part of the input of
\* the next turn; for the name two tools share, only the first one runs.
C9_FunctionNotFound ==
    [][\A a \in Agents :
        /\ (Dispatches(a) /\ IsFunctionCall(response[a].output[tool_idx[a]])) =>
              LET item == response[a].output[tool_idx[a]]
                  new == SubSeq(tool_messages'[a], Len(tool_messages[a]) + 1,
                                Len(tool_messages'[a]))
              IN /\ pc'[a] = "exec" /\ result'[a] = result[a]
                 /\ reporter'.tool_calls = reporter.tool_calls + 1
                 /\ item.name \notin Registered(a) =>
                       /\ new = <<FunctionCallOutput(item.call_id, "function not found")>>
                       /\ reporter'.tool_calls_by = reporter.tool_calls_by
                 /\ item.name = "view_images" =>
                       /\ new = << FunctionCallOutput(item.call_id, "view_images"),
                                   StagedMsg("view_images", item.call_id) >>
                       /\ reporter'.tool_calls_by =
                             [reporter.tool_calls_by EXCEPT !["view_images"] = @ + 1]
        /\ (Creates(a) /\ response[a] # NoResponse) =>
              \A i \in 1..Len(response[a].output) :
                  LET item == response[a].output[i]
                  IN (IsFunctionCall(item) /\ item.name \notin Registered(a)) =>
                        \E j \in 1..Len(response'[a].input) :
                            response'[a].input[j] =
                                FunctionCallOutput(item.call_id, "function not found")]_vars

\* C9 witness: "function not found" is in the input of the turn being dispatched
C9_Witness ==
    \E a \in Agents :
        /\ pc[a] = "exec"
        /\ \E j \in 1..Len(response[a].input) :
              response[a].input[j].content = "function not found"

\* C10: when call() returns on a stopped agent with tool messages left, they
\* all stem from the last turn, are logged by the reporter and no request is
\* made; and no message of such a turn is ever in the input of a later turn.
C10_LeftOverNeverDelivered ==
    /\ [](\A a \in Agents :
            \A i \in 1..Len(response[a].input) :
                response[a].input[i].call_id[1] \notin left_over[a])
    /\ [][\A a \in Agents :
            (/\ Returns(a)
             /\ stop[a] /\ messages[a] # <<>>
             /\ response[a] # NoResponse)
                => (/\ \A i \in 1..Len(messages[a]) :
                          messages[a][i].call_id[1] = response[a].id
                    /\ reporter'.last_messages = messages[a]
                    /\ response[a].id \in left_over'[a]
                    /\ next_id' = next_id)]_vars

\* C10 witness: a turn created after a reset while messages were left over
C10_Witness ==
    \E a \in Agents :
        /\ left_over[a] # {}
        /\ reporter.num_resets > 0
        /\ pc[a] = "exec"
        /\ response[a].id \notin left_over[a]

(* ------------------------------------------------------------------ *)
(* Properties of the delegation (SpecDeleg)                            *)
(* ------------------------------------------------------------------ *)
IsPrefix(s, t) == Len(s) <= Len(t) /\ SubSeq(t, 1, Len(s)) = s

\* write_python of coder c starts a review: reviewer.reset(), reviewer.review()
ReviewStarts(c) == c \in CoderAgents /\ pc[c] = "exec" /\ pc'[c] = "tool"

\* the handoff tool of the researcher starts
HandoffStarts == pc[Researcher] = "exec" /\ pc'[Researcher] = "tool"

\* the agents registered under the key of the handoff about to start
RegisteredPair(key) ==
    UNION {{coders[i].coder, ReviewerOf(coders[i].coder)} :
              i \in {j \in 1..Len(coders) : coders[j].id = key}}

\* C11 (as claimed): the turn an agent has created is the last entry of its
\* chain and is linked to the entry before it; it has no linkage only if it
\* is the first turn the agent created in its lifetime.
C11_LinkedToChainEnd ==
    \A a \in DelegAgents :
        response[a] # NoResponse =>
            LET ids == response_ids[a]
                n == Len(ids)
            IN /\ n >= 1 /\ ids[n] = response[a].id
               /\ IF turns[a] = {response[a].id}
                  THEN response[a].previous_response_id = NoId
                  ELSE n >= 2 /\ response[a].previous_response_id = ids[n - 1]

\* C11 (amended): every turn an agent creates is appended to its chain; a
\* turn of a call() that was given a last_response_id is linked to that id;
\* otherwise it is linked to the entry that was last in the chain when it was
\* created, and has no linkage exactly when the chain was empty then, which
\* for every agent but a reviewer means its first turn ever, and for a
\* reviewer the first turn of a review (reset() has emptied the chain).
C11_LinkedToChainEndOrGivenId ==
    \A a \in DelegAgents :
        response[a] # NoResponse =>
            LET ids == response_ids[a]
                n == Len(ids)
                prev == response[a].previous_response_id
            IN /\ n >= 1 /\ ids[n] = response[a].id
               /\ response[a].id \in turns[a]
               /\ IF last_response_id[a] # NoId THEN prev = last_response_id[a]
                  ELSE IF n >= 2 THEN prev = ids[n - 1]
                  ELSE prev = NoId
               /\ (a \notin ReviewerAgents) => n = Cardinality(turns[a])
               /\ (a \in ReviewerAgents /\ n = 1) => response[a].input = called[a].args

\* C11 witness: a turn linked to the id the caller passed, which is not the
\* chain entry before it
C11_Witness ==
    \E a \in DelegAgents :
        /\ response[a] # NoResponse
        /\ Len(response_ids[a]) >= 3
        /\ last_response_id[a] # NoId
        /\ response[a].previous_response_id = last_response_id[a]
        /\ response[a].previous_response_id
              # response_ids[a][Len(response_ids[a]) - 1]

\* C12 (as claimed): under every step the chain of every agent before the
\* step is a prefix of its chain after the step.
C12_ChainAppendOnly ==
    [][\A a \in DelegAgents : IsPrefix(response_ids[a], response_ids'[a])]_vars

\* C12 (amended): the chain of an agent before a step is a prefix of its
\* chain after it (call, the resets of a handoff, a write_python that fails
\* the lint), except that the reset() write_python runs before a review
\* empties the chain of that coder's reviewer; the chains of the researcher
\* and the coders only ever grow.
C12_ChainAppendOnlyButReviewerReset ==
    [][\A a \in DelegAgents :
          IF \E c \in CoderAgents : ReviewStarts(c) /\ a = ReviewerOf(c)
          THEN response_ids'[a] = <<>>
          ELSE IsPrefix(response_ids[a], response_ids'[a])]_vars

\* C12 witness: a review starts on a reviewer that has created turns, with
\* an empty chain
C12_Witness ==
    \E c \in CoderAgents :
        /\ pc[c] = "tool" /\ pc[ReviewerOf(c)] = "while"
        /\ response[ReviewerOf(c)] = NoResponse
        /\ turns[ReviewerOf(c)] # {}
        /\ response_ids[ReviewerOf(c)] = <<>>
        /\ response_ids[c] # <<>>

RegisteredKeys == {coders[i].id : i \in 1..Len(coders)}

\* the registry at any moment: one entry per key, one coder per entry, and
\* as many entries as keys used and as different_coders counts
C20_RegistryState ==
    /\ \A i, j \in 1..Len(coders) :
          (coders[i].id = coders[j].id \/ coders[i].coder = coders[j].coder)
              => i = j
    /\ RegisteredKeys = keys_used
    /\ Len(coders) = Cardinality(keys_used)
    /\ reporter.different_coders = Cardinality(keys_used)

\* the registry over a step: entries are never removed or changed, one is
\* added only by a handoff with a key that has none, and a handoff with a
\* registered key calls the coder registered under it
C20_RegistryStep ==
    /\ IsPrefix(coders, coders')
    /\ coders' # coders => HandoffStarts
    /\ HandoffStarts =>
          LET key == CurrentItem(Researcher).args.coder_id
          IN /\ pc'[coder'] = "while"
             /\ called'[coder'].made
             /\ IF key \in RegisteredKeys
                THEN /\ coders' = coders
                     /\ coder' \in RegisteredPair(key) \cap CoderAgents
                     /\ reporter'.different_coders = reporter.different_coders
                ELSE /\ Len(coders') = Len(coders) + 1
                     /\ coders'[Len(coders')] = [id |-> key, coder |-> coder']
                     /\ \A i \in 1..Len(coders) : coders[i].coder # coder'
                     /\ reporter'.different_coders
                           = reporter.different_coders + 1

\* C20: the registry holds at most one entry per key: a coder/reviewer pair
\* is created only on the first handoff with a key, every later handoff with
\* that key calls that same pair, entries are never changed or removed, and
\* the number of entries, like the different_coders metric, is the number of
\* distinct keys used so far.
C20_OnePairPerKey == []C20_RegistryState /\ [][C20_RegistryStep]_vars

\* a second handoff with the key of the only entry, carrying another task,
\* has called the coder that entry holds, which had worked before
C20_Witness ==
    /\ pc[Researcher] = "tool"
    /\ Len(coders) = 1 /\ coders[1].id = 1
    /\ coder = coders[1].coder
    /\ pc[coder] = "while" /\ response[coder] = NoResponse
    /\ response_ids[coder] # <<>>
    /\ reporter.num_resets > 0
    /\ CurrentItem(Researcher).args = [task |-> "t2", coder_id |-> 1]
    /\ task[ReviewerOf(coder)] = "t2"

\* the last entry of a non-empty chain
Last(seq) == seq[Len(seq)]

\* the coder the running handoff has called is at the first turn of that
\* call
FirstTurnOfHandoff(c) ==
    /\ pc[Researcher] = "tool" /\ coder = c
    /\ response[c] # NoResponse
    /\ response_ids[c] = Append(called[c].response_ids, response[c].id)

\* a handoff to a registered key, as it starts
C21_RehandoffStep ==
    HandoffStarts =>
        LET key == CurrentItem(Researcher).args.coder_id
            tk == CurrentItem(Researcher).args.task
        IN key \in RegisteredKeys =>
              /\ \A a \in RegisteredPair(key) :
                    /\ call_count'[a] = 0 /\ ~stop'[a]
                    /\ response_ids'[a] = response_ids[a]
              /\ \A a \in RegisteredPair(key) \cap ReviewerAgents :
                    task'[a] = tk
              /\ \A a \in RegisteredPair(key) \cap CoderAgents :
                    /\ pc'[a] = "while" /\ response'[a] = NoResponse
                    /\ messages'[a] = <<UserMsg(tk)>>

\* the first turn of a coder that had a conversation before
C21_RehandoffFirstTurn ==
    \A c \in CoderAgents :
        (FirstTurnOfHandoff(c) /\ called[c].response_ids # <<>>) =>
            /\ response[c].previous_response_id = Last(called[c].response_ids)
            /\ response[c].input
                  = <<UserMsg(CurrentItem(Researcher).args.task)>>

\* C21: a handoff to an already-registered key, before the coder's loop
\* runs, sets the task of the paired reviewer to the new request, sets
\* counter 0 and stop false on the coder and on its reviewer and leaves both
\* chains as they are; the first turn the coder then creates is linked to the
\* last turn of its earlier handoffs and its input is the task as one user
\* message.
C21_RehandoffKeepsChain ==
    [][C21_RehandoffStep]_vars /\ []C21_RehandoffFirstTurn

\* C21 witness: the coder of a registered key, handed a second task, has
\* created the first turn of that handoff
C21_Witness ==
    \E c \in CoderAgents :
        /\ FirstTurnOfHandoff(c)
        /\ called[c].response_ids # <<>>
        /\ reporter.num_resets > 0
        /\ call_count[c] = 1

\* the ids in a chain
IdsOf(seq) == {seq[i] : i \in 1..Len(seq)}

\* the coder a handoff with a new key constructs has no conversation
C22_NewCoderStep ==
    HandoffStarts =>
        (CurrentItem(Researcher).args.coder_id \notin RegisteredKeys =>
            /\ response_ids'[coder'] = <<>>
            /\ response_ids'[ReviewerOf(coder')] = <<>>
            /\ last_response_id'[coder'] = NoId)

\* the chains of the coders of two entries share no turn, and the turn a
\* coder holds is linked to nothing or to a turn of its own chain
C22_ChainsApart ==
    /\ \A i, j \in 1..Len(coders) :
          i # j => IdsOf(response_ids[coders[i].coder])
                      \cap IdsOf(response_ids[coders[j].coder]) = {}
    /\ \A i \in 1..Len(coders) :
          LET c == coders[i].coder
          IN response[c] # NoResponse =>
                /\ (FirstTurnOfHandoff(c) /\ turns[c] = {response[c].id})
                       => response[c].previous_response_id = NoId
                /\ response[c].previous_response_id
                       \in {NoId} \cup IdsOf(response_ids[c])
                /\ \A j \in 1..Len(coders) :
                      j # i => response[c].previous_response_id
                                  \notin IdsOf(response_ids[coders[j].coder])

\* C22: coders registered under different keys share no conversation: the
\* coder created for a new key starts with an empty chain and its first turn
\* has no linkage, the chains of the coders of two keys are disjoint, and no
\* turn of a coder is linked to a turn of another coder's chain.
C22_NoSharedContext == [][C22_NewCoderStep]_vars /\ []C22_ChainsApart

\* C22 witness: two keys are registered, the first coder has a conversation
\* and the second has just created its first turn
C22_Witness ==
    /\ Len(coders) = 2 /\ coders[1].id # coders[2].id
    /\ response_ids[coders[1].coder] # <<>>
    /\ FirstTurnOfHandoff(coders[2].coder)
    /\ turns[coders[2].coder] = {response[coders[2].coder].id}

\* the agents a registry entry brought into being
PairOf(i) == {coders[i].coder, ReviewerOf(coders[i].coder)}

\* C23 (as claimed): every coder a handoff creates has its own buffer
\* instance: no buffer instance is held by the coders of two entries, nor by
\* the coder of one entry and the reviewer of another.
C23_OwnBufferPerCoder ==
    \A i, j \in 1..Len(coders) :
        i # j => \A a \in PairOf(i), b \in PairOf(j) :
                    (a \in CoderAgents \/ b \in CoderAgents)
                        => BufferOf(a) # BufferOf(b)

\* agent a runs Tool.run of the tool its current request names: the step
\* dispatches the request, whether the handler returns at once, calls
\* another agent or raises
Invokes(a) ==
    /\ AtHandler(a, ToolsOf(a)[FindTool(ToolsOf(a), CurrentItem(a).name, 1)].handler)
    /\ (tool_idx'[a] # tool_idx[a] \/ pc'[a] # pc[a])

\* a handler has raised in this step
Faults == \E a \in DelegAgents : Invokes(a) /\ result'[a].kind = "Fault"

\* C24: every invocation of a tool through run() adds exactly 1 to the
\* counter tool_calls_<name> of that tool, before the handler runs (an
\* invocation whose handler raises, or calls another agent, is counted), and
\* changes the counter of no other tool; no other step changes a counter.
C24_RunCountsOwnTool ==
    [][\A n \in ToolNames :
          reporter'.tool_calls_by[n] =
              reporter.tool_calls_by[n]
                + (IF \E a \in DelegAgents :
                         Invokes(a) /\ CurrentItem(a).name = n
                   THEN 1 ELSE 0)]_vars

\* C24 witness: a review tool raised inside a write_python inside a handoff:
\* each of the three tools was invoked once and counted once, none returned
C24_Witness ==
    /\ result[Researcher].kind = "Fault"
    /\ reporter.tool_calls_by["handoff_to_coder"] = 1
    /\ reporter.tool_calls_by["write_python"] = 1
    /\ reporter.tool_calls_by["write_code_review"] = 1
    /\ reporter.tool_calls = 0

\* a call() of the delegation has ended with a handler's fault
Faulted == \E x \in DelegAgents : result[x].kind = "Fault"

\* the step in which a handler raises
C25_FaultStep ==
    Faults =>
        /\ pc[Researcher] # "idle"
        /\ \A x \in DelegAgents :
              pc[x] # "idle" => (pc'[x] = "idle" /\ result'[x].kind = "Fault")
        /\ reporter'.tool_calls = reporter.tool_calls
        /\ reporter'.last_messages = reporter.last_messages
        /\ reporter'.num_calls = reporter.num_calls
        /\ \A x \in DelegAgents : tool_messages'[x] \in {<<>>, tool_messages[x]}
        /\ UNCHANGED << next_id, response_ids, turns, buffers >>

\* after it nothing is dispatched and no turn is created
C25_NothingAfter ==
    Faulted => /\ ~ \E a \in DelegAgents : Invokes(a)
               /\ UNCHANGED << next_id, response_ids, turns >>

\* C25: a fault raised by a tool handler is caught neither by Tool.run nor by
\* the call loop: the enclosing call() ends with the fault, no tool-result
\* message is produced for the failing request, the remaining requests of
\* the turn are not dispatched and no further turn is created; raised by a
\* reviewer's tool inside write_python inside a coder's loop inside a
\* handoff, it ends every call() up to the researcher's.
C25_FaultPropagates ==
    /\ [][C25_FaultStep]_vars
    /\ [][C25_NothingAfter]_vars
    /\ [](Faulted => /\ result[Researcher].kind = "Fault"
                     /\ \A x \in DelegAgents : pc[x] = "idle")

\* C25 witness: the review tool raised in the first review of the first
\* coder, and the calls of reviewer, coder and researcher ended with it
C25_Witness ==
    /\ Len(coders) = 1
    /\ \A x \in {Researcher, coders[1].coder, ReviewerOf(coders[1].coder)} :
          /\ result[x].kind = "Fault" /\ pc[x] = "idle"
          /\ Len(response_ids[x]) = 1
    /\ next_id = 4
    /\ ~stop[ReviewerOf(coders[1].coder)]

\* coder c dispatches a write_python whose file the check rejects, and the
\* handler returns
LintRejects(c) ==
    /\ c \in CoderAgents
    /\ Invokes(c)
    /\ Len(lint_file(CurrentItem(c).args.python_code)) > LintThreshold
    /\ result'[c].kind # "Fault"

\* C26: when the check of a write_python reports more than the threshold,
\* the tool returns the report, prefixed by the filename, and does not engage
\* the reviewer: no reviewer turn is created and the reviewer's verdict,
\* feedback, stop flag, counter and chain are unchanged.
C26_LintRejectSkipsReview ==
    [][\A c \in CoderAgents :
          LintRejects(c) =>
              LET rv == ReviewerOf(c)
                  args == CurrentItem(c).args
              IN /\ tool_messages'[c] =
                       Append(tool_messages[c],
                              FunctionCallOutput(CurrentItem(c).call_id,
                                  args.filename \o ": "
                                      \o lint_file(args.python_code)))
                 /\ pc'[c] = "exec" /\ tool_idx'[c] = tool_idx[c] + 1
                 /\ pc'[rv] = pc[rv] /\ pc[rv] = "idle"
                 /\ pass_'[rv] = pass_[rv] /\ feedback'[rv] = feedback[rv]
                 /\ stop'[rv] = stop[rv] /\ call_count'[rv] = call_count[rv]
                 /\ response_ids'[rv] = response_ids[rv]
                 /\ turns'[rv] = turns[rv]
                 /\ next_id' = next_id
                 /\ reporter'.lint_errors = reporter.lint_errors + 1]_vars

\* C26 witness: a write_python was rejected by the check after a review of
\* the same coder had recorded a verdict: the verdict and the stop flag of
\* the reviewer are still there
C26_Witness ==
    \E c \in CoderAgents :
        /\ pc[c] = "exec" /\ tool_idx[c] = 2
        /\ reporter.lint_errors > 0
        /\ tool_messages[c] # <<>>
        /\ tool_messages[c][1].content = "f.py: " \o lint_file("faulty")
        /\ stop[ReviewerOf(c)] /\ feedback[ReviewerOf(c)] = "fb"
        /\ response_ids[ReviewerOf(c)] # <<>>

\* the review write_python of coder c started has returned
ReviewReturns(c) == c \in CoderAgents /\ pc[c] = "tool" /\ pc'[c] = "exec"

\* reviewer r dispatches write_code_review and the handler returns
Records(r) == r \in ReviewerAgents /\ Invokes(r) /\ result'[r].kind # "Fault"

\* what write_python returns for a verdict
ReviewResult(filename, p, fb) ==
    filename \o " saved successfully. Code "
             \o (IF p THEN "passed" ELSE "did not pass")
             \o " the review. Feedback: " \o fb

\* a review from its start to its return
C27_ReviewStep ==
    \A c \in CoderAgents :
        LET rv == ReviewerOf(c)
        IN /\ ReviewStarts(c) =>
                 /\ ~TooManyErrors(lint_file(CurrentItem(c).args.python_code))
                 /\ ~pass_'[rv] /\ feedback'[rv] = "" /\ ~recorded'[rv]
                 /\ pc'[rv] = "while"
           /\ Records(rv) =>
                 /\ pc[c] = "tool"
                 /\ pass_'[rv] = CurrentItem(rv).args.pass_
                 /\ feedback'[rv] = CurrentItem(rv).args.feedback
                 /\ stop'[rv] /\ recorded'[rv]
           /\ (pass_'[rv] # pass_[rv] \/ feedback'[rv] # feedback[rv])
                 => (ReviewStarts(c) \/ Records(rv))
           /\ Creates(rv) =>
                 /\ pc[c] = "tool"
                 /\ ~recorded[rv]
           /\ (ReviewReturns(c) /\ recorded[rv]) =>
                 /\ pc[rv] = "idle"
                 /\ tool_messages'[c] =
                       Append(tool_messages[c],
                              FunctionCallOutput(CurrentItem(c).call_id,
                                 ReviewResult(CurrentItem(c).args.filename,
                                              pass_[rv], feedback[rv])))

\* C27: when the check passes, write_python first resets the verdict of the
\* reviewer to (not passed, empty feedback), runs the reviewer's loop to its
\* end and returns the verdict write_code_review recorded in this review,
\* never one of a review before; recording a verdict sets the stop flag of
\* the reviewer, so the reviewer creates no further turn in that review.
C27_ReviewReturnsThisVerdict ==
    /\ [][C27_ReviewStep]_vars
    /\ [](\A r \in ReviewerAgents : (pc[r] # "idle" /\ recorded[r]) => stop[r])

\* C27 witness: two reviews of one coder turn have returned, the first with
\* a failing and the second with a passing verdict
C27_Witness ==
    \E c \in CoderAgents :
        /\ pc[c] = "exec" /\ tool_idx[c] = 3
        /\ Len(tool_messages[c]) = 2
        /\ tool_messages[c][1].content = ReviewResult("f.py", FALSE, "fb")
        /\ tool_messages[c][2].content = ReviewResult("f.py", TRUE, "fb")
        /\ pass_[ReviewerOf(c)] /\ stop[ReviewerOf(c)]
        /\ recorded[ReviewerOf(c)]
        /\ Len(response_ids[ReviewerOf(c)]) = 1

HandoffReturns == pc[Researcher] = "tool" /\ pc'[Researcher] = "exec"

\* the agents inside call(), outermost first: the researcher, the coder its
\* handoff called, the reviewer that coder's write_python called
C29_OneStack ==
    /\ \A c \in CoderAgents :
          pc[c] # "idle" => (pc[Researcher] = "tool" /\ coder = c)
    /\ \A c \in CoderAgents :
          pc[ReviewerOf(c)] # "idle" => pc[c] = "tool"
    /\ Cardinality({x \in DelegAgents : pc[x] \in {"while", "exec"}}) <= 1

\* nothing of an agent moves while a tool of it waits for a nested call()
C29_OuterWaits ==
    /\ \A c \in CoderAgents :
          (pc[c] = "tool" /\ ~ReviewReturns(c)) =>
              /\ call_count'[c] = call_count[c] /\ stop'[c] = stop[c]
              /\ response_ids'[c] = response_ids[c] /\ turns'[c] = turns[c]
              /\ tool_messages'[c] \in {tool_messages[c], <<>>}
    /\ \A c \in CoderAgents :
          ReviewReturns(c) =>
              /\ pc[ReviewerOf(c)] = "idle"
              /\ result[ReviewerOf(c)].kind = "returned"
              /\ call_count'[c] = call_count[c] /\ stop'[c] = stop[c]
              /\ response_ids'[c] = response_ids[c] /\ turns'[c] = turns[c]
              /\ Len(tool_messages'[c]) = Len(tool_messages[c]) + 1
    /\ pc[Researcher] = "tool" =>
          /\ response_ids'[Researcher] = response_ids[Researcher]
          /\ turns'[Researcher] = turns[Researcher]
          /\ ~HandoffReturns =>
                tool_messages'[Researcher] \in {tool_messages[Researcher], <<>>}
    /\ HandoffReturns =>
          /\ \A x \in CoderAgents \cup ReviewerAgents : pc[x] = "idle"
          /\ coder \in CoderAgents /\ result[coder].kind = "returned"
          /\ Len(tool_messages'[Researcher])
                = Len(tool_messages[Researcher]) + 1

\* C29: nested loops run inside the outer tool invocation: from the start of
\* a review by a coder's write_python to its return the coder creates no
\* turn and its counter, flag and chain do not change; from the start of the
\* researcher's handoff to its return the researcher creates no turn; the
\* inner loop has ended before the outer tool-result message is appended.
C29_NestedInsideTool == []C29_OneStack /\ [][C29_OuterWaits]_vars

\* C29 witness: a handoff has returned to the researcher after the coder's
\* write_python ran a review in which the reviewer recorded a verdict
C29_Witness ==
    /\ pc[Researcher] = "exec" /\ tool_idx[Researcher] = 2
    /\ Len(tool_messages[Researcher]) = 1
    /\ Len(coders) = 1
    /\ reporter.passed_reviews + reporter.failed_reviews = 1
    /\ reporter.tool_calls_by["write_code_review"] = 1
    /\ Len(response_ids[coders[1].coder]) = 2
    /\ Len(response_ids[Researcher]) = 1

(* ------------------------------------------------------------------ *)
(* Properties of the task manager (SpecTasks)                          *)
(* ------------------------------------------------------------------ *)
\* positions of the tasks with status active
ActiveTasks == {i \in 1..Len(tasks) : tasks[i].task_status = 0}

\* no task has that id
Unknown(id) == \A i \in 1..Len(tasks) : tasks[i].task_id # id

\* position of the first task with that id (the id is known)
FirstWith(id) ==
    CHOOSE i \in 1..Len(tasks) :
        /\ tasks[i].task_id = id
        /\ \A j \in 1..(i - 1) : tasks[j].task_id # id

\* the step is the operation op returning
Did(op) == tm_result'.op = op /\ tm_result'.op # ""

\* C14 (as claimed): at most one task is active, and the pointer is -1 or
\* the id of the active task.
C14_AtMostOneActive ==
    /\ Cardinality(ActiveTasks) <= 1
    /\ active_task # -1 =>
          \E i \in ActiveTasks : tasks[i].task_id = active_task

\* C15 (as claimed): activate(id) of a known id leaves the target active and
\* the pointer at id; the target was inactive and keeps its comments; every
\* other task that was active is inactive with the automatic comment added,
\* and every other task is unchanged.
C15_ActivateFrame ==
    [][(Did("activate_task") /\ ~Unknown(tm_result'.id)) =>
          LET id == tm_result'.id
              t == FirstWith(id)
          IN /\ Len(tasks') = Len(tasks)
             /\ tasks'[t].task_status = 0
             /\ active_task' = id
             /\ tasks[t].task_status = -1
             /\ tasks'[t].comment = tasks[t].comment
             /\ \A j \in 1..Len(tasks) :
                   j # t =>
                      IF tasks[j].task_status = 0
                      THEN tasks'[j] =
                              [tasks[j] EXCEPT
                                  !.task_status = -1,
                                  !.comment = Append(@, AutoComment)]
                      ELSE tasks'[j] = tasks[j]]_vars

\* C16: activate, deactivate and complete with an id no task has return
\* "Task not found." and change neither a task nor the pointer.
C16_UnknownIdNoMutation ==
    [][((Did("activate_task") \/ Did("deactivate_task") \/ Did("complete_task"))
            /\ Unknown(tm_result'.id))
          => /\ tm_result'.text = "Task not found."
             /\ tasks' = tasks
             /\ active_task' = active_task]_vars

\* C16 witness: a deactivation of an unknown id returned while a task is
\* active and the pointer is set
C16_Witness ==
    /\ tm_result.op = "deactivate_task"
    /\ tm_result.text = "Task not found."
    /\ active_task # -1
    /\ ActiveTasks # {}

\* C17: deactivate(id, comment) of a known task leaves it inactive with the
\* comment appended behind the ones it had, and the pointer at -1, whatever
\* status the task had; so successive deactivations add their comments in
\* call order.
C17_DeactivateAppends ==
    [][(Did("deactivate_task") /\ ~Unknown(tm_result'.id)) =>
          LET t == FirstWith(tm_result'.id)
          IN /\ tasks'[t].task_status = -1
             /\ tasks'[t].comment = Append(tasks[t].comment, tm_result'.arg)
             /\ active_task' = -1
             /\ tm_result'.text # "Task not found."]_vars

\* C17 witness: two deactivations of an inactive task recorded their
\* comments in call order
C17_Witness ==
    \E i \in 1..Len(tasks) :
        /\ tasks[i].task_status = -1
        /\ tasks[i].comment = <<"c2", "c1">>
        /\ tm_result.op = "deactivate_task" /\ tm_result.arg = "c1"
        /\ tm_result.id = tasks[i].task_id

\* C18 (as claimed): a task carries a report exactly when it is completed.
C18_ReportIffCompleted ==
    \A i \in 1..Len(tasks) :
        (tasks[i].report # NoReport) <=> (tasks[i].task_status = 1)

\* the tasks that are not completed, in insertion order
RECURSIVE Open(_)
Open(ts) ==
    IF ts = <<>> THEN <<>>
    ELSE (IF Head(ts).task_status = 1 THEN <<>> ELSE <<Head(ts)>>) \o Open(Tail(ts))

\* C19: the listing shows the tasks that are not completed, in insertion
\* order, and no completed one; the detail lookup shows the first task with
\* the id whatever its status and "Task not found." for an unknown id;
\* neither changes a task or the pointer.
C19_ListingAndLookup ==
    /\ [](tm_result.op = "show_tasks" =>
            /\ Len(tm_result.shown) = Len(Open(tasks))
            /\ \A k \in 1..Len(tm_result.shown) :
                  /\ tm_result.shown[k].task_id = Open(tasks)[k].task_id
                  /\ tm_result.shown[k].task_status
                        = (IF Open(tasks)[k].task_status = 0
                           THEN "active" ELSE "inactive")
                  /\ tm_result.shown[k].task_status # "completed")
    /\ [](tm_result.op = "show_task_info" =>
            IF Unknown(tm_result.id)
            THEN tm_result.text = "Task not found." /\ tm_result.shown = <<>>
            ELSE LET t == tasks[FirstWith(tm_result.id)]
                 IN /\ Len(tm_result.shown) = 1
                    /\ tm_result.shown[1].task_id = tm_result.id
                    /\ tm_result.shown[1].comment = t.comment
                    /\ tm_result.shown[1].report = t.report
                    /\ tm_result.shown[1].task_status =
                          (CASE t.task_status = 0 -> "active"
                             [] t.task_status = -1 -> "inactive"
                             [] t.task_status = 1 -> "completed"))
    /\ [][(Did("show_tasks") \/ Did("show_task_info"))
             => (tasks' = tasks /\ active_task' = active_task)]_vars

\* C19 witness: a listing of two tasks of which the first is completed
C19_Witness ==
    /\ tm_result.op = "show_tasks"
    /\ Len(tasks) = 2
    /\ tasks[1].task_status = 1
    /\ Len(tm_result.shown) = 1
    /\ tm_result.shown[1].task_id = 2

(* ------------------------------------------------------------------ *)
(* Properties of the task tools (SpecTaskTools)                        *)
(* ------------------------------------------------------------------ *)
\* C30: from the driver's initial state (task 1 added and activated), after
\* any sequence of the tools add_task, select_task and complete_task the
\* pointer is -1 exactly when no task is active, and otherwise exactly one
\* task is active and its id is the pointer.
C30_PointerIsTheActiveTask ==
    /\ active_task = -1 <=> ActiveTasks = {}
    /\ active_task # -1 =>
          /\ Cardinality(ActiveTasks) = 1
          /\ \A i \in ActiveTasks : tasks[i].task_id = active_task
    /\ \A i, j \in 1..Len(tasks) : tasks[i].task_id = tasks[j].task_id => i = j

\* C30 witness: with the first task completed and the second selected, a
\* select_task of an id that no task has left no task active
C30_Witness ==
    /\ Len(tasks) = 2
    /\ tasks[1].task_status = 1 /\ tasks[2].task_status = -1
    /\ tasks[2].comment # <<>>
    /\ active_task = -1
    /\ tm_result.op = "select_task" /\ tm_result.id = MaxTasks + 1

(* ------------------------------------------------------------------ *)
(* Properties of the budgets and of the driver loop                    *)
(* ------------------------------------------------------------------ *)
\* the turns an agent created since its last reset_call_count: iterate adds
\* one per turn and nothing but reset_call_count lowers the counter
TurnsSinceReset(a) == call_count[a]

\* C31: between two consecutive counter resets every agent, a CodeReviewer
\* re-armed by reset() included, creates at most max_calls + 1 turns, and
\* whenever its stopped flag is false its counter is at most max_calls.
C31_LocalBudgetEnforced ==
    \A a \in DelegAgents :
        /\ TurnsSinceReset(a) <= max_calls[a] + 1
        /\ ~stop[a] => call_count[a] <= max_calls[a]

\* the driver starts a call()
MainCalls == pc[Physicist] = "idle" /\ pc'[Physicist] # "idle"

\* C32 (steps): a call() the driver starts finds the researcher not stopped,
\* and a call() that returns has created at least one turn since its entry.
C32_CallStep ==
    /\ MainCalls => ~stop[Physicist]
    /\ Returns(Physicist) =>
          /\ response[Physicist] # NoResponse
          /\ Len(response_ids[Physicist]) > Len(called[Physicist].response_ids)

\* C32 (states): the researcher creates at most max_calls + 1 turns in all.
C32_TurnsBounded ==
    Cardinality(turns[Physicist]) <= max_calls[Physicist] + 1

\* C32: when the completion service and the handlers return, the loop of
\* main() ends: every call() it starts creates at least one turn of the
\* researcher, none is started on a stopped researcher, and the researcher
\* creates at most max_calls + 1 turns in all.
C32_DriverTerminates ==
    /\ <>MainDone
    /\ []C32_TurnsBounded
    /\ [][C32_CallStep]_vars

\* C32 witness: the loop ended on the budget after a second call(), with
\* max_calls + 1 turns and the project not ended by the tool
C32_Witness ==
    /\ MainDone
    /\ ~stop_tool /\ stop[Physicist]
    /\ called[Physicist].args = << UserMsg("") >>
    /\ Cardinality(turns[Physicist]) = max_calls[Physicist] + 1

\* C33: once end_project has been dispatched the researcher creates no
\* further turn and dispatches no further tool call, and the driver starts
\* no further call().
C33_EndProjectEndsAll ==
    [][stop_tool =>
          /\ ~Creates(Physicist)
          /\ ~(Dispatches(Physicist)
                 /\ CurrentItem(Physicist).type = "function_call")
          /\ ~MainCalls]_vars

(* ------------------------------------------------------------------ *)
(* Further properties of the tasks (SpecTaskTools)                     *)
(* ------------------------------------------------------------------ *)
\* C34: completed is a terminal status: a task that is completed stays in
\* the collection, at its place, and stays completed whatever operation of
\* the task manager or task tool runs.
C34_CompletedIsTerminal ==
    [][\A i \in 1..Len(tasks) :
          tasks[i].task_status = 1 =>
              /\ i <= Len(tasks')
              /\ tasks'[i].task_id = tasks[i].task_id
              /\ tasks'[i].task_status = 1]_vars

\* C35: select_task with a new_id that no task has returns a text that ends
\* in "Task not found." and leaves the tasks and the pointer as they were:
\* the task that was active stays active, with the comments it had.
C35_UnknownSelectKeepsState ==
    [][(Did("select_task")
            /\ tm_result'.id # NotAnInteger
            /\ Unknown(tm_result'.id))
          => /\ \E k \in TaskIds :
                   tm_result'.text \in
                       { "\n" \o "Task not found.",
                         "\n" \o "Task " \o ToString(k) \o " deactivated."
                              \o "\n" \o "Task not found." }
             /\ tasks' = tasks
             /\ active_task' = active_task]_vars

(* ------------------------------------------------------------------ *)
(* The stop flag and the requests of a turn (SpecReviews)              *)
(* ------------------------------------------------------------------ *)
\* execute_tool_calls of the agent returns to the loop of call()
ExecuteReturns(a) == pc[a] = "exec" /\ pc'[a] = "while"

\* the arguments of the last write_code_review request of an output
LastVerdict(out) == Calls(out)[Len(Calls(out))].args

\* C36 (steps): execute_tool_calls returns only when it has passed every
\* item of the turn, with one result per request in the order of the
\* output, whether the agent is stopped or not; a reviewer whose turn
\* requested verdicts then holds the last of them, and the review that
\* returns hands the verdict the reviewer holds to the coder.
C36_TurnStep ==
    /\ \A a \in DelegAgents :
          ExecuteReturns(a) =>
              /\ tool_idx[a] = Len(response[a].output) + 1
              /\ CallIds(Results(tool_messages[a]))
                    = CallIds(Calls(response[a].output))
              /\ (a \in ReviewerAgents /\ Calls(response[a].output) # <<>>) =>
                    /\ stop[a]
                    /\ pass_[a] = LastVerdict(response[a].output).pass_
                    /\ feedback[a] = LastVerdict(response[a].output).feedback
    /\ \A a \in DelegAgents :
          (pc[a] = "exec" /\ tool_idx'[a] # tool_idx[a] /\ pc'[a] = "exec") =>
              tool_idx'[a] = tool_idx[a] + 1
    /\ \A c \in CoderAgents :
          (ReviewReturns(c) /\ recorded[ReviewerOf(c)]) =>
              tool_messages'[c] =
                  Append(tool_messages[c],
                         FunctionCallOutput(CurrentItem(c).call_id,
                            ReviewResult(CurrentItem(c).args.filename,
                                         pass_[ReviewerOf(c)],
                                         feedback[ReviewerOf(c)])))

\* C36: the stop flag is looked at between turns only: when it is set
\* during a turn, by the budget check before the turn or by write_code_review
\* while the turn is dispatched, the requests that remain in that turn are
\* still dispatched, in the order of the output; of several verdicts of one
\* reviewer turn the review returns the last.
C36_StopBetweenTurnsOnly == [][C36_TurnStep]_vars

\* C36 witness: a reviewer that the budget check stopped before its turn
\* was asked for two verdicts in that turn; both were dispatched and the
\* coder received the second
C36_Witness ==
    \E c \in CoderAgents :
        /\ pc[c] = "exec" /\ tool_idx[c] = 2
        /\ tool_messages[c] # <<>>
        /\ tool_messages[c][1].content = ReviewResult("f.py", TRUE, "fb2")
        /\ reporter.tool_calls_by["write_code_review"] = 2
        /\ reporter.max_calls_reached = 1
        /\ call_count[ReviewerOf(c)] = 1
        /\ stop[ReviewerOf(c)]

(* ------------------------------------------------------------------ *)
(* The buffer and the metrics of the driver's researcher (SpecMain)    *)
(* ------------------------------------------------------------------ *)
IsStaged(m) == m.type = "user"

\* the messages of a list that came out of the buffer
Staged(msgs) == SelectSeq(msgs, IsStaged)

\* the agent dispatches a request for one of the viewing tools
Views(a) ==
    /\ AtHandler(a, "view_images") \/ AtHandler(a, "view_text_files")
    /\ tool_idx'[a] = tool_idx[a] + 1

\* C37 (steps): a dispatch of view_images or view_text_files appends the
\* result of the call and then exactly one staged message, the one of that
\* call, also when none of the files exists, and leaves the buffer empty; no
\* other dispatch appends a staged message; the buffer is empty when a turn
\* is created and when call() returns.
C37_BufferStep ==
    \A a \in {Physicist} :
        LET n == Len(tool_messages[a])
            b == BufferOf(a)
        IN /\ Views(a) =>
                 /\ Len(tool_messages'[a]) = n + 2
                 /\ SubSeq(tool_messages'[a], 1, n) = tool_messages[a]
                 /\ IsResult(tool_messages'[a][n + 1])
                 /\ tool_messages'[a][n + 1].call_id = CurrentItem(a).call_id
                 /\ IsStaged(tool_messages'[a][n + 2])
                 /\ tool_messages'[a][n + 2].call_id = CurrentItem(a).call_id
                 /\ buffers'[b] = <<>>
           /\ (Dispatches(a) /\ ~Views(a)) =>
                 Staged(tool_messages'[a]) = Staged(tool_messages[a])
           /\ (Creates(a) \/ Returns(a)) =>
                 /\ buffers[b] = <<>>
                 /\ buffers'[b] = <<>>

\* C37: with no fault and no staging but by the handlers, the buffer of an
\* agent is empty whenever the agent creates a turn and whenever its call()
\* returns: each view_images or view_text_files stages exactly one message,
\* which is drained into the messages of the same dispatch; no buffer holds
\* a message that a later dispatch or another agent could drain.
C37_BufferEmptyBetweenDispatches ==
    /\ [][C37_BufferStep]_vars
    /\ [](\A b \in BufferIds : buffers[b] = <<>>)

\* C37 witness: after end_project, view_images was asked for a file that
\* does not exist: its result and the one message it staged, with no image,
\* follow the result of end_project
C37_Witness ==
    /\ pc[Physicist] = "exec" /\ tool_idx[Physicist] = 3
    /\ Len(tool_messages[Physicist]) = 3
    /\ IsResult(tool_messages[Physicist][2])
    /\ tool_messages[Physicist][2].content = "appended: , do not exist: b"
    /\ tool_messages[Physicist][3] =
          [type |-> "user", call_id |-> << 1, 2 >>, content |-> "view_images: "]
    /\ buffers[BufferOf(Physicist)] = <<>>

(* ------------------------------------------------------------------ *)
(* The metrics of the reporter (Spec)                                  *)
(* ------------------------------------------------------------------ *)
\* the sum of the per-tool counters tool_calls_<name>
RECURSIVE SumOver(_, _)
SumOver(f, names) ==
    IF names = {} THEN 0
    ELSE LET n == CHOOSE x \in names : TRUE
         IN f[n] + SumOver(f, names \ {n})

PerToolSum(rep) == SumOver(rep.tool_calls_by, DOMAIN rep.tool_calls_by)

\* the agent dispatches a tool-call request
Requests(a) ==
    /\ Dispatches(a)
    /\ response[a].output[tool_idx[a]].type = "function_call"

\* C38 (steps): what each operation adds to the metrics, and that nothing
\* else changes them.
C38_MetricStep ==
    \A a \in Agents :
        LET name == response[a].output[tool_idx[a]].name
            found == FindTool(ToolsOf(a), name, 1) # 0
        IN /\ reporter'.num_calls =
                 reporter.num_calls + (IF Creates(a) THEN 1 ELSE 0)
           /\ reporter'.tool_calls =
                 reporter.tool_calls + (IF Requests(a) THEN 1 ELSE 0)
           /\ PerToolSum(reporter') =
                 PerToolSum(reporter)
                    + (IF Requests(a) /\ found THEN 1 ELSE 0)
           /\ (Requests(a) /\ found) =>
                 reporter'.tool_calls_by[name] = reporter.tool_calls_by[name] + 1
           /\ reporter'.max_calls_reached =
                 reporter.max_calls_reached
                    + (IF ~stop[a] /\ stop'[a] THEN 1 ELSE 0)
           /\ (~stop[a] /\ stop'[a]) =>
                 (Creates(a) /\ call_count[a] >= max_calls[a])
           /\ reporter'.num_resets \in
                 {reporter.num_resets, reporter.num_resets + 1}
           /\ reporter'.num_resets # reporter.num_resets =>
                 (pc[a] = "idle" /\ call_count'[a] = 0 /\ ~stop'[a])
           /\ (call_count'[a] < call_count[a] \/ (stop[a] /\ ~stop'[a])) =>
                 reporter'.num_resets = reporter.num_resets + 1

\* C38 (states): num_calls is the number of the turns created.
C38_MetricState ==
    /\ reporter.num_calls = next_id - 1
    /\ reporter.num_calls = Cardinality(UNION {turns[a] : a \in Agents})
    /\ PerToolSum(reporter) <= reporter.tool_calls

\* C38: with no fault, num_calls is the number of turns created, tool_calls
\* the number of tool-call requests dispatched, resolved or not, the sum of
\* the counters tool_calls_<name> is tool_calls less the requests with a
\* name that could not be resolved, max_calls_reached the number of times
\* the budget check set the stop flag, and num_resets the number of
\* reset_call_count executed.
C38_MetricsCount == []C38_MetricState /\ [][C38_MetricStep]_vars

\* C38 witness: after a reset the agent created its second turn; a request
\* had a name no tool has, the budget check has set the stop flag
C38_Witness ==
    /\ reporter.num_resets = 1
    /\ reporter.num_calls = 2
    /\ reporter.max_calls_reached >= 1
    /\ PerToolSum(reporter) >= 1
    /\ reporter.tool_calls > PerToolSum(reporter)

(* ------------------------------------------------------------------ *)
(* Properties of the tool schemas (SpecSchema)                         *)
(* ------------------------------------------------------------------ *)
\* the names of the parameters given, in the order given
GivenNames ==
    [i \in 1..Len(tool_schema.specs) |-> tool_schema.specs[i].name]

\* the parts of the claim that are about `required`, the nullable type and
\* the two flags
C39_RequiredAndFlags ==
    LET ps == tool_schema.schema.parameters
    IN /\ ps.required = GivenNames
       /\ \A i \in 1..Len(tool_schema.specs) :
             LET spec == tool_schema.specs[i]
                 given == tool_schema.parameters[i][spec.name]
                 t == IF spec.array THEN "array" ELSE spec.type_
             IN given.type = IF spec.required THEN Str(t)
                             ELSE List(<< t, "null" >>)
       /\ DOMAIN ps.properties = {GivenNames[i] : i \in 1..Len(GivenNames)}
       /\ ps.additionalProperties = FALSE
       /\ tool_schema.schema.strict = TRUE

\* C39: for any list of single-parameter schemas build_function_schema
\* returns a schema whose `required` holds the name of every parameter given,
\* in the order given, also of those built with required=False (typed
\* [type, "null"]), whose `properties` holds every parameter given, with
\* additionalProperties false and strict true.
C39_SchemaHoldsEveryParameter ==
    tool_schema.built =>
        /\ C39_RequiredAndFlags
        /\ \A i \in 1..Len(tool_schema.parameters) :
              LET name == tool_schema.specs[i].name
              IN tool_schema.schema.parameters.properties[name]
                    = tool_schema.parameters[i][name]

\* C39 as amended: `properties` holds, under each name given, the parameter
\* given last with that name; it holds every parameter given when no two
\* share a name.
C39_SchemaHoldsLastOfEachName ==
    tool_schema.built =>
        /\ C39_RequiredAndFlags
        /\ \A i \in 1..Len(tool_schema.parameters) :
              LET name == tool_schema.specs[i].name
                  same == {j \in 1..Len(tool_schema.specs) :
                              tool_schema.specs[j].name = name}
                  last == CHOOSE j \in same : \A k \in same : k <= j
              IN tool_schema.schema.parameters.properties[name]
                    = tool_schema.parameters[last][name]

\* C39 witness: a schema of two parameters with different names, the second
\* built with required=False: both are required, the second may be null
C39_Witness ==
    /\ tool_schema.built
    /\ Len(tool_schema.specs) = 2
    /\ tool_schema.specs[1].name = "x" /\ tool_schema.specs[2].name = "y"
    /\ tool_schema.specs[1].required /\ ~tool_schema.specs[2].required
    /\ tool_schema.schema.parameters.required = << "x", "y" >>
    /\ tool_schema.schema.parameters.properties["y"].type
          = List(<< "string", "null" >>)
    /\ tool_schema.schema.parameters.properties["x"].type = Str("string")

====
